---------------------------- MODULE Spec2Model ----------------------------
(***************************************************************************)
(* Smart-Brightness: the adaptive control engine (src/main.rs and the      *)
(* components it drives) as a state machine.                               *)
(*                                                                         *)
(* Time.  Every std::time::Instant the program stores is kept as the time  *)
(* elapsed since that instant, in clock ticks, saturating at the duration  *)
(* it is compared with; a step that takes time adds to every stored        *)
(* instant at once.  TicksPerSec is the resolution of the model's clock.   *)
(*                                                                         *)
(* Numbers.  Brightness values are u32.  f32 luma values in [0,1] are      *)
(* fixed-point, in units of 1/LumaScale; multipliers and the smoothing     *)
(* factor are percentages.                                                 *)
(***************************************************************************)
EXTENDS Integers, Sequences, FiniteSets, TLC

VARIABLES
    cfg,             \* the Config record (read_config), fixed for a run
    device,          \* the backlight device and the sensor, outside the program
    running,         \* the shared AtomicBool the Ctrl-C handler clears
    pc,              \* position of the main thread
    result,          \* main's result: "none" while running, then "ok", "err", "panic"
    bl,              \* Backlight
    ema,             \* Ema
    transition,      \* SmoothTransition
    status,          \* StatusReporter
    capture_errors,  \* ErrorThrottle
    loop,            \* locals of main / run_brightness_loop
    obs              \* what the last operation did (observation only)

vars == <<cfg, device, running, pc, result, bl, ema, transition, status,
          capture_errors, loop, obs>>

---------------------------------------------------------------------------
(* Bounds of the model *)

\* clock ticks per second
TicksPerSec == 2
\* fixed-point denominator of an f32 luma value
LumaScale == 4
\* largest brightness the component-level specifications start from
MaxBrightness == 6
\* number of set_target calls of a component-level behaviour
MaxSetTargets == 2

---------------------------------------------------------------------------
(* Option<T>, integer helpers *)

None == <<>>
Some(v) == <<v>>
IsSome(o) == o # <<>>
Unwrap(o) == o[1]

Min(a, b) == IF a <= b THEN a ELSE b
Max(a, b) == IF a >= b THEN a ELSE b
abs_diff(a, b) == IF a >= b THEN a - b ELSE b - a
clamp(v, lo, hi) == IF v < lo THEN lo ELSE IF v > hi THEN hi ELSE v
InRange(v, lo, hi) == lo <= v /\ v <= hi

\* Duration constructors, on the model's clock (a nonzero duration stays nonzero)
from_millis(ms) == (ms * TicksPerSec + 999) \div 1000
from_secs(s) == s * TicksPerSec
\* run_duration and pause_interval (f64 seconds) are carried in milliseconds
from_secs_f64(ms) == from_millis(ms)

\* an instant t that lies `age` in the past, d ticks later, kept up to `cap`
Older(age, d, cap) == Min(age + d, Max(cap, age))

---------------------------------------------------------------------------
(* logging.rs *)

Off == 0
Minimal == 1
Low == 2
Medium == 3

\* Logger::enabled
Logger_enabled(logger, level) == level <= logger

\* Logger::log: whether a line of `level` is written
Logger_log(logger, level) == Logger_enabled(logger, level) /\ level # Off

---------------------------------------------------------------------------
(* smooth_transition.rs *)

SmoothTransition_new(initial, interval_ms, divisor, max_step) ==
    [target   |-> initial,
     current  |-> initial,
     step     |-> 1,
     min_step |-> 1,
     max_step |-> Max(max_step, 1),
     last     |-> 0,
     interval |-> from_millis(interval_ms),
     divisor  |-> Max(divisor, 1)]

set_target_unclamped_step(self, t, max_brightness) ==
    LET target == clamp(t, 0, max_brightness)
        diff == abs_diff(target, self.current)
    IN [self EXCEPT !.target = target,
                    !.step = Max(diff \div self.divisor, self.min_step)]

set_target_keep_step(self, t, max_brightness) ==
    [self EXCEPT !.target = clamp(t, 0, max_brightness),
                 !.step = abs_diff(clamp(t, 0, max_brightness), self.current) \div self.divisor]

set_target(self, t, max_brightness) ==
    LET target == clamp(t, 0, max_brightness)
        diff == abs_diff(target, self.current)
    IN [self EXCEPT !.target = target,
                    !.step = Min(Max(diff \div self.divisor, self.min_step), self.max_step)]

update_overshoot(self) ==
    IF self.current = self.target \/ self.last < self.interval
    THEN [self |-> self, ret |-> None]
    ELSE LET cur == IF self.current < self.target
                    THEN self.current + self.step
                    ELSE Max(self.current - self.step, 0)
         IN [self |-> [self EXCEPT !.current = cur, !.last = 0], ret |-> Some(cur)]

update_ignores_interval(self) ==
    IF self.current = self.target
    THEN [self |-> self, ret |-> None]
    ELSE LET step == Min(self.step, abs_diff(self.target, self.current))
             cur == IF self.current < self.target
                    THEN Min(self.current + step, self.target)
                    ELSE Max(self.current - step, self.target)
         IN [self |-> [self EXCEPT !.current = cur, !.last = 0], ret |-> Some(cur)]

\* SmoothTransition::update: the new state and the returned Option<u32>
update(self) ==
    IF self.current = self.target
    THEN [self |-> self, ret |-> None]
    ELSE IF self.last < self.interval
    THEN [self |-> self, ret |-> None]
    ELSE LET step == Min(self.step, abs_diff(self.target, self.current))
             cur == IF self.current < self.target
                    THEN Min(self.current + step, self.target)
                    ELSE Max(self.current - step, self.target)
         IN [self |-> [self EXCEPT !.current = cur, !.last = 0], ret |-> Some(cur)]

\* the sentinel Duration::from_secs(3600)
Converged == from_secs(3600)

time_until_next_step(self) ==
    IF self.current = self.target THEN Converged
    ELSE IF self.last >= self.interval THEN 0
    ELSE self.interval - self.last

current_value(self) == self.current

\* the controller d ticks later
SmoothTransition_later(self, d) ==
    [self EXCEPT !.last = Older(self.last, d, self.interval)]

---------------------------------------------------------------------------
(* backlight.rs *)

\* Backlight::resolve, given the device's max_brightness file
Backlight_resolve(max_value) == [max_value |-> max_value, last_value |-> None]

\* Backlight::min_value
min_value(self) == 0

set_cache_always(self, value, write_ok) ==
    LET v == clamp(value, 0, self.max_value)
    IN IF self.last_value = Some(v)
       THEN [self |-> self, wrote |-> FALSE, ok |-> TRUE, v |-> v]
       ELSE [self |-> [self EXCEPT !.last_value = Some(v)],
             wrote |-> TRUE, ok |-> write_ok, v |-> v]

\* Backlight::set; write_ok is whether write_u32_to succeeds
set(self, value, write_ok) ==
    LET v == clamp(value, 0, self.max_value)
    IN IF self.last_value = Some(v)
       THEN [self |-> self, wrote |-> FALSE, ok |-> TRUE, v |-> v]
       ELSE [self |-> IF write_ok THEN [self EXCEPT !.last_value = Some(v)] ELSE self,
             wrote |-> TRUE, ok |-> write_ok, v |-> v]

---------------------------------------------------------------------------
(* smoothing.rs; alpha is a percentage *)

Ema_new(alpha) == [alpha |-> clamp(alpha, 0, 100), value |-> 0, init |-> FALSE]

Ema_update_blend_first(self, x) ==
    [self EXCEPT !.value = (self.alpha * x + (100 - self.alpha) * self.value) \div 100,
                 !.init = TRUE]

Ema_update(self, x) ==
    IF ~self.init
    THEN [self EXCEPT !.value = x, !.init = TRUE]
    ELSE [self EXCEPT !.value = (self.alpha * x + (100 - self.alpha) * self.value) \div 100]

---------------------------------------------------------------------------
(* time_adjust.rs; multipliers are percentages *)

TimeAdjuster_from_config(c) ==
    [day_multiplier   |-> Max(c.circadian_day_multiplier, 0),
     night_multiplier |-> Max(c.circadian_night_multiplier, 0),
     day_start_hour   |-> c.circadian_day_start_hour,
     night_start_hour |-> c.circadian_night_start_hour]

is_day_no_wrap(self, hour) ==
    hour >= self.day_start_hour /\ hour < self.night_start_hour

is_day(self, hour) ==
    IF self.day_start_hour <= self.night_start_hour
    THEN hour >= self.day_start_hour /\ hour < self.night_start_hour
    ELSE hour >= self.day_start_hour \/ hour < self.night_start_hour

\* factor_now, given the wall-clock hour
factor_now(self, hour) ==
    IF is_day(self, hour) THEN self.day_multiplier ELSE self.night_multiplier

adjust_unclamped(self, normalized_luma, hour) ==
    (normalized_luma * factor_now(self, hour)) \div 100

adjust(self, normalized_luma, hour) ==
    clamp((normalized_luma * factor_now(self, hour)) \div 100, 0, LumaScale)

---------------------------------------------------------------------------
(* main.rs: the signal conditioning pipeline *)

normalize_luma_always_rescales(c, raw) ==
    IF IsSome(c.camera_min_luma) /\ IsSome(c.camera_max_luma)
       /\ Unwrap(c.camera_max_luma) # Unwrap(c.camera_min_luma)
    THEN clamp(((raw - Unwrap(c.camera_min_luma)) * LumaScale)
                   \div (Unwrap(c.camera_max_luma) - Unwrap(c.camera_min_luma)),
               0, LumaScale)
    ELSE raw

normalize_luma(c, raw) ==
    IF IsSome(c.camera_min_luma) /\ IsSome(c.camera_max_luma)
       /\ Unwrap(c.camera_max_luma) > Unwrap(c.camera_min_luma)
    THEN clamp(((raw - Unwrap(c.camera_min_luma)) * LumaScale)
                   \div (Unwrap(c.camera_max_luma) - Unwrap(c.camera_min_luma)),
               0, LumaScale)
    ELSE raw

apply_circadian(c, circadian, smoothed, hour) ==
    IF c.enable_circadian THEN adjust(circadian, smoothed, hour) ELSE smoothed

\* adjusted.mul_add(range_f32, real_min as f32).round() as u32  (saturating cast)
mapped_value(adjusted, range, real_min) ==
    Max(0, real_min + ((2 * adjusted * range + LumaScale) \div (2 * LumaScale)))

update_brightness_keep_previous(adjusted, has_luma, last_adjusted_luma, min_luma_delta, range, real_min, real_max, hardware_max) ==
    IF has_luma /\ abs_diff(adjusted, last_adjusted_luma) < min_luma_delta
    THEN [has_luma |-> has_luma, last_adjusted_luma |-> last_adjusted_luma, ret |-> None]
    ELSE [has_luma |-> TRUE, last_adjusted_luma |-> adjusted,
          ret |-> Some(Min(clamp(mapped_value(adjusted, range, real_min), real_min, real_max),
                           hardware_max))]

update_brightness_exact_gate(adjusted, has_luma, last_adjusted_luma, min_luma_delta, range, real_min, real_max, hardware_max) ==
    IF has_luma /\ adjusted = last_adjusted_luma
    THEN [has_luma |-> has_luma, last_adjusted_luma |-> adjusted, ret |-> None]
    ELSE [has_luma |-> TRUE, last_adjusted_luma |-> adjusted,
          ret |-> Some(Min(clamp(mapped_value(adjusted, range, real_min), real_min, real_max),
                           hardware_max))]

update_brightness_no_hw_clamp(adjusted, has_luma, last_adjusted_luma, min_luma_delta, range, real_min, real_max, hardware_max) ==
    IF has_luma /\ abs_diff(adjusted, last_adjusted_luma) < min_luma_delta
    THEN [has_luma |-> has_luma, last_adjusted_luma |-> adjusted, ret |-> None]
    ELSE [has_luma |-> TRUE, last_adjusted_luma |-> adjusted,
          ret |-> Some(clamp(mapped_value(adjusted, range, real_min), real_min, real_max))]

\* update_brightness: the two &mut arguments afterwards and the returned Option<u32>
update_brightness(adjusted, has_luma, last_adjusted_luma, min_luma_delta, range, real_min, real_max, hardware_max) ==
    IF has_luma /\ abs_diff(adjusted, last_adjusted_luma) < min_luma_delta
    THEN [has_luma |-> has_luma, last_adjusted_luma |-> adjusted, ret |-> None]
    ELSE [has_luma |-> TRUE, last_adjusted_luma |-> adjusted,
          ret |-> Some(Min(clamp(mapped_value(adjusted, range, real_min), real_min, real_max),
                           hardware_max))]

---------------------------------------------------------------------------
(* main.rs: StatusReporter *)

StatusReporter_new_last_print_now(initial, interval_secs, threshold, fast_interval_secs, fast_threshold, enabled, only_on_change) ==
    [last_value     |-> initial,
     last_luma      |-> 0,
     last_print     |-> 0,
     base_interval  |-> from_secs(Max(interval_secs, 1)),
     base_threshold |-> Max(threshold, 1),
     fast_interval  |-> from_secs(fast_interval_secs),
     fast_threshold |-> Max(fast_threshold, 1),
     level          |-> Low,
     enabled        |-> enabled,
     only_on_change |-> only_on_change]

StatusReporter_new(initial, interval_secs, threshold, fast_interval_secs, fast_threshold, enabled, only_on_change) ==
    [last_value     |-> initial,
     last_luma      |-> 0,
     last_print     |-> from_secs(Max(interval_secs, 1)),
     base_interval  |-> from_secs(Max(interval_secs, 1)),
     base_threshold |-> Max(threshold, 1),
     fast_interval  |-> from_secs(fast_interval_secs),
     fast_threshold |-> Max(fast_threshold, 1),
     level          |-> Low,
     enabled        |-> enabled,
     only_on_change |-> only_on_change]

record_ignore_only_on_change(self, logger, brightness, normalized_luma) ==
    IF ~self.enabled
    THEN [self |-> [self EXCEPT !.last_value = brightness, !.last_luma = normalized_luma],
          should_log |-> FALSE, printed |-> FALSE]
    ELSE LET delta == abs_diff(brightness, self.last_value)
             interval == IF delta >= self.fast_threshold
                         THEN self.fast_interval ELSE self.base_interval
             should_log == delta >= self.base_threshold \/ self.last_print >= interval
         IN IF should_log
            THEN [self |-> [self EXCEPT !.last_value = brightness,
                                        !.last_luma = normalized_luma,
                                        !.last_print = 0],
                  should_log |-> TRUE,
                  printed |-> Logger_enabled(logger, self.level) /\ Logger_log(logger, Low)]
            ELSE [self |-> [self EXCEPT !.last_luma = normalized_luma],
                  should_log |-> FALSE, printed |-> FALSE]

record_base_interval_only(self, logger, brightness, normalized_luma) ==
    IF ~self.enabled
    THEN [self |-> [self EXCEPT !.last_value = brightness, !.last_luma = normalized_luma],
          should_log |-> FALSE, printed |-> FALSE]
    ELSE LET delta == abs_diff(brightness, self.last_value)
             changed == delta >= self.base_threshold
             expired == self.last_print >= self.base_interval
             should_log == IF self.only_on_change
                           THEN changed /\ expired ELSE changed \/ expired
         IN IF should_log
            THEN [self |-> [self EXCEPT !.last_value = brightness,
                                        !.last_luma = normalized_luma,
                                        !.last_print = 0],
                  should_log |-> TRUE,
                  printed |-> Logger_enabled(logger, self.level) /\ Logger_log(logger, Low)]
            ELSE [self |-> [self EXCEPT !.last_luma = normalized_luma],
                  should_log |-> FALSE, printed |-> FALSE]

\* StatusReporter::record: the new state, and whether a status line was written
record_tracks_every_value(self, logger, brightness, normalized_luma) ==
    IF ~self.enabled
    THEN [self |-> [self EXCEPT !.last_value = brightness, !.last_luma = normalized_luma],
          should_log |-> FALSE, printed |-> FALSE]
    ELSE LET delta == abs_diff(brightness, self.last_value)
             interval == IF delta >= self.fast_threshold
                         THEN self.fast_interval ELSE self.base_interval
             changed == delta >= self.base_threshold
             expired == self.last_print >= interval
             should_log == IF self.only_on_change
                           THEN changed /\ expired ELSE changed \/ expired
         IN IF should_log
            THEN [self |-> [self EXCEPT !.last_value = brightness,
                                        !.last_luma = normalized_luma,
                                        !.last_print = 0],
                  should_log |-> TRUE,
                  printed |-> Logger_enabled(logger, self.level) /\ Logger_log(logger, Low)]
            ELSE [self |-> [self EXCEPT !.last_value = brightness,
                                        !.last_luma = normalized_luma],
                  should_log |-> FALSE, printed |-> FALSE]

record(self, logger, brightness, normalized_luma) ==
    IF ~self.enabled
    THEN [self |-> [self EXCEPT !.last_value = brightness, !.last_luma = normalized_luma],
          should_log |-> FALSE, printed |-> FALSE]
    ELSE LET delta == abs_diff(brightness, self.last_value)
             interval == IF delta >= self.fast_threshold
                         THEN self.fast_interval ELSE self.base_interval
             changed == delta >= self.base_threshold
             expired == self.last_print >= interval
             should_log == IF self.only_on_change
                           THEN changed /\ expired ELSE changed \/ expired
         IN IF should_log
            THEN [self |-> [self EXCEPT !.last_value = brightness,
                                        !.last_luma = normalized_luma,
                                        !.last_print = 0],
                  should_log |-> TRUE,
                  printed |-> Logger_enabled(logger, self.level) /\ Logger_log(logger, Low)]
            ELSE [self |-> [self EXCEPT !.last_luma = normalized_luma],
                  should_log |-> FALSE, printed |-> FALSE]

StatusReporter_later(self, d) ==
    [self EXCEPT !.last_print =
        Older(self.last_print, d, Max(self.base_interval, self.fast_interval))]

---------------------------------------------------------------------------
(* main.rs: ErrorThrottle *)

ErrorThrottle_new(interval, level) ==
    [last_log |-> None, interval |-> interval, level |-> level]

log_every_fault(self, logger) ==
    IF Logger_enabled(logger, self.level)
    THEN [self |-> [self EXCEPT !.last_log = Some(0)],
          emitted |-> Logger_log(logger, Minimal)]
    ELSE [self |-> self, emitted |-> FALSE]

\* ErrorThrottle::log: the new state, and whether a warning was written
log(self, logger) ==
    LET should_log == IF IsSome(self.last_log)
                      THEN Unwrap(self.last_log) >= self.interval ELSE TRUE
    IN IF should_log /\ Logger_enabled(logger, self.level)
       THEN [self |-> [self EXCEPT !.last_log = Some(0)],
             emitted |-> Logger_log(logger, Minimal)]
       ELSE [self |-> self, emitted |-> FALSE]

ErrorThrottle_later(self, d) ==
    IF IsSome(self.last_log)
    THEN [self EXCEPT !.last_log = Some(Older(Unwrap(self.last_log), d, self.interval))]
    ELSE self

---------------------------------------------------------------------------
(* config.rs *)

\* a valid configuration on the model's scales; the runs below vary its fields
BaseCfg ==
    [resolution                 |-> <<640, 400>>,
     warmup_frames              |-> 30,
     smoothing_factor           |-> 50,
     real_min_brightness        |-> 12,
     real_max_brightness        |-> 16,
     capture_interval_ms        |-> 1000,
     smooth_interval_ms         |-> 500,
     smooth_step_divisor        |-> 2,
     smooth_max_step            |-> 2,
     camera_min_luma            |-> Some(0),
     camera_max_luma            |-> Some(LumaScale),
     logging                    |-> Low,
     enable_circadian           |-> TRUE,
     circadian_day_multiplier   |-> 105,
     circadian_night_multiplier |-> 95,
     circadian_day_start_hour   |-> 6,
     circadian_night_start_hour |-> 18,
     status_interval_secs       |-> 2,
     status_threshold           |-> 2,
     status_fast_interval_secs  |-> 1,
     status_fast_threshold      |-> 3,
     error_throttle_secs        |-> 1,
     min_luma_delta             |-> 2,
     log_target_brightness      |-> TRUE,
     status_log_only_on_change  |-> TRUE,
     mode                       |-> "Realtime",
     interval_boot              |-> FALSE,
     run_duration               |-> 1000,
     pause_interval             |-> 1000,
     half_precision             |-> FALSE]

validate_no_thresholds(c) ==
    /\ ~(c.real_max_brightness <= c.real_min_brightness)
    /\ ~(\E i \in 1..2 : c.resolution[i] = 0)
    /\ c.capture_interval_ms # 0
    /\ c.smooth_interval_ms # 0
    /\ c.smoothing_factor >= 0 /\ c.smoothing_factor <= 100
    /\ c.smoothing_factor # 0
    /\ c.smooth_step_divisor # 0
    /\ c.smooth_max_step # 0
    /\ c.warmup_frames # 0
    /\ ~(IsSome(c.camera_min_luma) /\ IsSome(c.camera_max_luma)
         /\ Unwrap(c.camera_max_luma) <= Unwrap(c.camera_min_luma))
    /\ c.status_interval_secs # 0
    /\ c.status_fast_interval_secs # 0
    /\ c.error_throttle_secs # 0

\* Config::validate: TRUE for Ok(())
validate(c) ==
    /\ ~(c.real_max_brightness <= c.real_min_brightness)
    /\ ~(\E i \in 1..2 : c.resolution[i] = 0)
    /\ c.capture_interval_ms # 0
    /\ c.smooth_interval_ms # 0
    /\ c.smoothing_factor >= 0 /\ c.smoothing_factor <= 100
    /\ c.smoothing_factor # 0
    /\ c.smooth_step_divisor # 0
    /\ c.smooth_max_step # 0
    /\ c.warmup_frames # 0
    /\ ~(IsSome(c.camera_min_luma) /\ IsSome(c.camera_max_luma)
         /\ Unwrap(c.camera_max_luma) <= Unwrap(c.camera_min_luma))
    /\ c.status_interval_secs # 0
    /\ c.status_fast_interval_secs # 0
    /\ c.status_threshold # 0
    /\ c.status_fast_threshold # 0
    /\ c.error_throttle_secs # 0

\* state no component-level specification touches
Idle ==
    /\ device = [max_brightness |-> MaxBrightness, brightness |-> 0]
    /\ running = TRUE
    /\ result = "none"
    /\ bl = Backlight_resolve(MaxBrightness)
    /\ ema = Ema_new(BaseCfg.smoothing_factor)
    /\ status = StatusReporter_new(0, 1, 1, 1, 1, FALSE, FALSE)
    /\ loop = [max_duration |-> None]

---------------------------------------------------------------------------
(* The Transition Controller on its own: new, then any calls of set_target *)
(* and update as time passes.                                              *)

InitTransition ==
    /\ Idle
    /\ cfg = BaseCfg
    /\ pc = "transition"
    /\ capture_errors = ErrorThrottle_new(from_secs(1), Minimal)
    /\ \E initial \in 0..MaxBrightness, interval_ms \in {500, 1000},
          divisor \in {0, 1, 2}, max_step \in {0, 1, 3} :
          /\ transition = SmoothTransition_new(initial, interval_ms, divisor, max_step)
          /\ obs = [op |-> "new", ret |-> None, targets |-> 0, applied |-> 0,
                    divisor |-> divisor, max_step |-> max_step, stepped |-> FALSE]

ST_set_target ==
    /\ obs.targets < MaxSetTargets
    /\ \E t \in 0..(MaxBrightness + 1), max_brightness \in {MaxBrightness - 1, MaxBrightness} :
          transition' = set_target(transition, t, max_brightness)
    /\ obs' = [obs EXCEPT !.op = "set_target", !.ret = None,
                          !.targets = @ + 1, !.applied = 0]
    /\ UNCHANGED <<cfg, device, running, pc, result, bl, ema, status, capture_errors, loop>>

ST_update ==
    /\ transition' = update(transition).self
    /\ obs' = [obs EXCEPT !.op = "update", !.ret = update(transition).ret,
                          !.applied = IF IsSome(update(transition).ret)
                                      THEN Min(@ + 1, MaxBrightness + 1) ELSE @,
                          \* a step has been applied since construction
                          !.stepped = @ \/ IsSome(update(transition).ret)]
    /\ UNCHANGED <<cfg, device, running, pc, result, bl, ema, status, capture_errors, loop>>

ST_tick ==
    /\ transition' = SmoothTransition_later(transition, 1)
    /\ obs' = [obs EXCEPT !.op = "tick", !.ret = None]
    /\ UNCHANGED <<cfg, device, running, pc, result, bl, ema, status, capture_errors, loop>>

NextTransition == ST_set_target \/ ST_update \/ ST_tick

SpecTransition == InitTransition /\ [][NextTransition]_vars

\* update() keeps being called and time keeps passing
FairSpecTransition ==
    SpecTransition /\ WF_vars(ST_update) /\ WF_vars(ST_tick)

Distance(t) == abs_diff(t.current, t.target)

\* C3: while no new target is set, |current - target| never grows, shrinks at
\* every applied update(), current never passes beyond target, and current
\* reaches target after finitely many updates spaced >= interval apart.
C3_MonotoneConvergence ==
    /\ [][obs'.op # "set_target" =>
            /\ Distance(transition') <= Distance(transition)
            /\ (obs'.op = "update" /\ IsSome(obs'.ret)
                   => Distance(transition') < Distance(transition))
            /\ (transition.current <= transition.target
                   => transition'.current <= transition'.target)
            /\ (transition.current >= transition.target
                   => transition'.current >= transition'.target)]_vars
    /\ <>[](transition.current = transition.target)

\* a transition of several applied steps, the last one shorter than step, has arrived
C3_Witness ==
    /\ obs.op = "update" /\ IsSome(obs.ret)
    /\ obs.applied >= 2
    /\ transition.step >= 2
    /\ transition.current = transition.target

\* C4: step is within [1, max_step] in every state of the controller,
\* whatever divisor and max_step new() was given (0 included).
C4_StepBound ==
    transition.step >= 1 /\ transition.step <= transition.max_step

\* new() was given divisor 0 and max_step 0, and a far target has been set
C4_Witness ==
    /\ obs.divisor = 0 /\ obs.max_step = 0
    /\ obs.op = "set_target"
    /\ Distance(transition) >= 3
    /\ transition.step = 1

\* what a call of update() that applies a step does to the controller `t`
Stepped(t, t2, ret) ==
    LET d == Min(t.step, abs_diff(t.target, t.current))
    IN /\ t2 = [t EXCEPT !.current = IF t.current < t.target THEN @ + d ELSE @ - d,
                         !.last = 0]
       /\ ret = Some(t2.current)

\* C27 as stated: update() is a no-op, returning nothing and changing
\* nothing, when current = target or when less than `interval` has elapsed
\* since the last applied step; otherwise it moves current toward target by
\* min(step, |target - current|), records the step time and returns the new
\* current.
C27_UpdateFrame ==
    [][(obs'.op = "update") =>
          IF \/ transition.current = transition.target
             \/ (obs.stepped /\ transition.last < transition.interval)
          THEN obs'.ret = None /\ transition' = transition
          ELSE Stepped(transition, transition', obs'.ret)]_vars

\* C27 amended: the wait of `interval` also runs from the construction of the
\* controller: update() is a no-op when current = target or when less than
\* `interval` has elapsed since the last applied step, or since construction
\* if no step has been applied yet.
C27_UpdateFrameAmended ==
    [][(obs'.op = "update") =>
          IF \/ transition.current = transition.target
             \/ transition.last < transition.interval
          THEN obs'.ret = None /\ transition' = transition
          ELSE Stepped(transition, transition', obs'.ret)]_vars

\* update() refused a step that was due to the distance but not to the clock,
\* after an earlier step
C27_Witness ==
    /\ obs.op = "update"
    /\ obs.ret = None
    /\ obs.stepped
    /\ transition.current # transition.target
    /\ transition.last < transition.interval

---------------------------------------------------------------------------
(* SmoothTransition::set_target on its own: from controllers of small      *)
(* values and from the one of the specification's example (current 500,    *)
(* divisor 20, max_step 60), at any time after construction.               *)

\* <<initial, divisor, max_step>> as passed to SmoothTransition::new
SetTargetControllers ==
    {<<500, 20, 60>>}
    \cup ({0, MaxBrightness \div 2, MaxBrightness} \X {0, 1, 2} \X {0, 1, 3})

\* <<t, max_brightness>> as passed to set_target
SetTargetArgs ==
    {<<520, 1000>>, <<1400, 1000>>}
    \cup ((0..(MaxBrightness + 1)) \X {MaxBrightness - 1, MaxBrightness})

InitSetTarget ==
    /\ Idle
    /\ cfg = BaseCfg
    /\ pc = "set_target"
    /\ capture_errors = ErrorThrottle_new(from_secs(1), Minimal)
    /\ \E c \in SetTargetControllers :
          /\ transition = SmoothTransition_new(c[1], 500, c[2], c[3])
          /\ obs = [op |-> "new", t |-> 0, max_brightness |-> 0, before |-> transition]

SetT_set_target ==
    /\ \E a \in SetTargetArgs :
          /\ transition' = set_target(transition, a[1], a[2])
          /\ obs' = [op |-> "set_target", t |-> a[1], max_brightness |-> a[2],
                     before |-> transition]
    /\ UNCHANGED <<cfg, device, running, pc, result, bl, ema, status, capture_errors, loop>>

SetT_tick ==
    /\ transition' = SmoothTransition_later(transition, 1)
    /\ obs' = [obs EXCEPT !.op = "tick"]
    /\ UNCHANGED <<cfg, device, running, pc, result, bl, ema, status, capture_errors, loop>>

NextSetTarget == SetT_set_target \/ SetT_tick

SpecSetTarget == InitSetTarget /\ [][NextSetTarget]_vars

\* C28: set_target(t, hw_max) sets target to min(t, hw_max) and step to
\* |target - current| / divisor (integer division) clamped into
\* [1, max_step], and changes nothing else; from current 500 with divisor 20
\* and max_step 60, a target of 520 gives step 1.
C28_SetTarget ==
    (obs.op = "set_target") =>
        LET b == obs.before
            target == Min(obs.t, obs.max_brightness)
            q == abs_diff(target, b.current) \div b.divisor
        IN /\ transition.target = target
           /\ transition.step = (IF q < 1 THEN 1 ELSE IF q > b.max_step THEN b.max_step ELSE q)
           /\ transition = [b EXCEPT !.target = transition.target, !.step = transition.step]
           /\ (b.current = 500 /\ b.divisor = 20 /\ b.max_step = 60 /\ target = 520)
                 => transition.step = 1

\* the example of the specification, some time after construction
C28_Witness ==
    /\ obs.op = "set_target"
    /\ transition.current = 500 /\ transition.target = 520
    /\ transition.divisor = 20 /\ transition.max_step = 60
    /\ transition.last > 0
    /\ transition.step = 1

---------------------------------------------------------------------------
(* The Error Throttle on its own: any sequence of faults as time passes.   *)
(* obs.since_emit is a clock of its own, restarted at every warning that   *)
(* is written; obs.gap is its reading when the latest warning was written. *)

InitThrottle ==
    /\ Idle
    /\ pc = "throttle"
    /\ transition = SmoothTransition_new(0, 500, 1, 1)
    /\ \E logging \in {Off, Minimal, Low}, secs \in {1, 2, 3}, level \in {Minimal, Low} :
          /\ cfg = [BaseCfg EXCEPT !.logging = logging, !.error_throttle_secs = secs]
          /\ capture_errors = ErrorThrottle_new(from_secs(secs), level)
    /\ obs = [op |-> "new", emitted |-> FALSE, since_emit |-> None, gap |-> None]

ET_log ==
    /\ capture_errors' = log(capture_errors, cfg.logging).self
    /\ obs' = IF log(capture_errors, cfg.logging).emitted
              THEN [op |-> "log", emitted |-> TRUE,
                    since_emit |-> Some(0), gap |-> obs.since_emit]
              ELSE [obs EXCEPT !.op = "log", !.emitted = FALSE]
    /\ UNCHANGED <<cfg, device, running, pc, result, bl, ema, transition, status, loop>>

ET_tick ==
    /\ capture_errors' = ErrorThrottle_later(capture_errors, 1)
    /\ obs' = [obs EXCEPT !.op = "tick", !.emitted = FALSE,
                          !.since_emit = IF IsSome(@)
                                         THEN Some(Older(Unwrap(@), 1, capture_errors.interval))
                                         ELSE @]
    /\ UNCHANGED <<cfg, device, running, pc, result, bl, ema, transition, status, loop>>

NextThrottle == ET_log \/ ET_tick

SpecThrottle == InitThrottle /\ [][NextThrottle]_vars

\* C6: two warnings are never written less than `interval` apart, and last_log
\* is set only by a call that writes one: a fault suppressed by the interval
\* or filtered by the logger level leaves last_log as it was.
C6_ThrottleSpacing ==
    /\ [](obs.op = "log" /\ obs.emitted /\ IsSome(obs.gap)
            => Unwrap(obs.gap) >= capture_errors.interval)
    /\ [][obs'.op = "log" =>
            IF obs'.emitted
            THEN capture_errors'.last_log = Some(0)
            ELSE capture_errors'.last_log = capture_errors.last_log]_vars

\* a second warning has been written
C6_Witness ==
    obs.op = "log" /\ obs.emitted /\ IsSome(obs.gap)

---------------------------------------------------------------------------
(* The Status Reporter on its own: new, then any calls of record as time   *)
(* passes.  obs keeps the arguments of the latest call, the delta and the  *)
(* age of last_print it found, and what it did.                            *)

\* <<status_interval_secs, status_fast_interval_secs>>: the fast interval
\* shorter than the base interval, and longer
StatusIntervals == {<<2, 1>>, <<1, 2>>}

InitStatus ==
    /\ device = [max_brightness |-> MaxBrightness, brightness |-> 0]
    /\ running = TRUE
    /\ result = "none"
    /\ pc = "status_reporter"
    /\ bl = Backlight_resolve(MaxBrightness)
    /\ ema = Ema_new(BaseCfg.smoothing_factor)
    /\ transition = SmoothTransition_new(0, 500, 1, 1)
    /\ capture_errors = ErrorThrottle_new(from_secs(1), Minimal)
    /\ loop = [max_duration |-> None]
    /\ \E logging \in {Off, Minimal, Low}, enabled \in BOOLEAN, only_on_change \in BOOLEAN,
          thresholds \in {<<2, 3>>, <<3, 1>>}, initial \in {0, MaxBrightness \div 2},
          intervals \in StatusIntervals :
          /\ cfg = [BaseCfg EXCEPT !.logging = logging,
                                   !.log_target_brightness = enabled,
                                   !.status_log_only_on_change = only_on_change,
                                   !.status_threshold = thresholds[1],
                                   !.status_fast_threshold = thresholds[2],
                                   !.status_interval_secs = intervals[1],
                                   !.status_fast_interval_secs = intervals[2]]
          /\ status = StatusReporter_new(initial, intervals[1], thresholds[1],
                           intervals[2], thresholds[2], enabled, only_on_change)
    /\ obs = [op |-> "new", value |-> 0, luma |-> 0, delta |-> 0, elapsed |-> 0,
              should_log |-> FALSE, printed |-> FALSE, changes |-> 0]

SR_record ==
    /\ \E brightness \in 0..MaxBrightness, luma \in {0, LumaScale} :
          LET r == record(status, cfg.logging, brightness, luma)
          IN /\ status' = r.self
             /\ obs' = [op |-> "record", value |-> brightness, luma |-> luma,
                        delta |-> abs_diff(brightness, status.last_value),
                        elapsed |-> status.last_print,
                        should_log |-> r.should_log, printed |-> r.printed,
                        \* the calls so far whose delta reached base_threshold
                        changes |-> IF abs_diff(brightness, status.last_value)
                                          >= status.base_threshold
                                    THEN Min(obs.changes + 1, 2) ELSE obs.changes]
    /\ UNCHANGED <<cfg, device, running, pc, result, bl, ema, transition, capture_errors, loop>>

SR_tick ==
    /\ status' = StatusReporter_later(status, 1)
    /\ obs' = [obs EXCEPT !.op = "tick", !.should_log = FALSE, !.printed = FALSE]
    /\ UNCHANGED <<cfg, device, running, pc, result, bl, ema, transition, capture_errors, loop>>

NextStatus == SR_record \/ SR_tick

SpecStatus == InitStatus /\ [][NextStatus]_vars

\* the condition of lines 350-362 for a call record(value, _) on reporter `self`
ShouldReport(self, value) ==
    LET delta == abs_diff(value, self.last_value)
        changed == delta >= self.base_threshold
        expired == self.last_print >=
                      (IF delta >= self.fast_threshold
                       THEN self.fast_interval ELSE self.base_interval)
    IN IF self.only_on_change THEN changed /\ expired ELSE changed \/ expired

\* C13 as stated: an enabled reporter writes a status line iff the condition
\* holds, and then sets last_value, last_luma, last_print; a disabled one
\* writes none and still sets last_value and last_luma.
C13_RecordEmits ==
    [][obs'.op = "record" =>
          IF status.enabled
          THEN /\ obs'.printed <=> ShouldReport(status, obs'.value)
               /\ obs'.printed => /\ status'.last_value = obs'.value
                                  /\ status'.last_luma = obs'.luma
                                  /\ status'.last_print = 0
          ELSE /\ ~obs'.printed
               /\ status'.last_value = obs'.value
               /\ status'.last_luma = obs'.luma]_vars

\* C13 amended: an enabled reporter writes a status line iff the condition
\* holds and the logger's level is at least Low; whenever the condition holds,
\* written or not, it sets last_value, last_luma and last_print; otherwise it
\* sets last_luma only.  A disabled one writes none and sets last_value and
\* last_luma.
C13_RecordEmitsAmended ==
    [][obs'.op = "record" =>
          IF status.enabled
          THEN /\ obs'.printed <=>
                     (ShouldReport(status, obs'.value) /\ Logger_log(cfg.logging, Low))
               /\ IF ShouldReport(status, obs'.value)
                  THEN /\ status'.last_value = obs'.value
                       /\ status'.last_luma = obs'.luma
                       /\ status'.last_print = 0
                  ELSE /\ status'.last_value = status.last_value
                       /\ status'.last_luma = obs'.luma
                       /\ status'.last_print = status.last_print
          ELSE /\ ~obs'.printed
               /\ status'.last_value = obs'.value
               /\ status'.last_luma = obs'.luma
               /\ status'.last_print = status.last_print]_vars

\* without only_on_change, a line was written for a value that had not changed
\* enough, because the interval had expired
C13_Witness ==
    /\ obs.op = "record"
    /\ status.enabled /\ ~status.only_on_change
    /\ obs.printed
    /\ obs.delta < status.base_threshold
    /\ obs.delta > 0
    /\ status.last_value = obs.value

\* C14 as stated: with only_on_change, no line is written for a delta below
\* base_threshold however old last_print is; a delta >= fast_threshold is
\* written at the first call at which fast_interval has elapsed.
C14_Hysteresis ==
    [][obs'.op = "record" /\ status.enabled /\ status.only_on_change =>
          LET delta == abs_diff(obs'.value, status.last_value)
          IN /\ delta < status.base_threshold => ~obs'.printed
             /\ delta >= status.fast_threshold =>
                    (obs'.printed <=> status.last_print >= status.fast_interval)]_vars

\* C14 amended: with only_on_change, no line is written for a delta below
\* base_threshold however old last_print is; a delta that is at least
\* fast_threshold and at least base_threshold is reported at the first call at
\* which fast_interval has elapsed, and written if the logger's level is at
\* least Low.
C14_HysteresisAmended ==
    [][obs'.op = "record" /\ status.enabled /\ status.only_on_change =>
          LET delta == abs_diff(obs'.value, status.last_value)
          IN /\ delta < status.base_threshold => ~obs'.should_log /\ ~obs'.printed
             /\ (delta >= status.fast_threshold /\ delta >= status.base_threshold) =>
                    /\ obs'.should_log <=> status.last_print >= status.fast_interval
                    /\ obs'.printed <=> (obs'.should_log /\ Logger_log(cfg.logging, Low))]_vars

\* a large delta was written before base_interval had elapsed
C14_Witness ==
    /\ obs.op = "record"
    /\ status.enabled /\ status.only_on_change
    /\ obs.printed
    /\ obs.delta >= status.fast_threshold
    /\ obs.elapsed >= status.fast_interval
    /\ obs.elapsed < status.base_interval

\* C34 as stated: a call of an enabled reporter's record that writes no line
\* leaves last_value and last_print alone and sets last_luma only.
C34_SilentRecordKeepsBaseline ==
    [][(obs'.op = "record" /\ status.enabled /\ ~obs'.printed) =>
          /\ status'.last_value = status.last_value
          /\ status'.last_print = status.last_print
          /\ status'.last_luma = obs'.luma]_vars

\* C34 amended: a call of an enabled reporter's record at which the reporting
\* condition does not hold leaves last_value and last_print alone and sets
\* last_luma only, so delta is measured against the value of the last call
\* at which the condition held; a call at which it holds sets all three,
\* also when the logger's level is below Low and no line is written.
C34_SilentRecordKeepsBaselineAmended ==
    [][(obs'.op = "record" /\ status.enabled) =>
          /\ obs'.should_log <=> ShouldReport(status, obs'.value)
          /\ obs'.delta = abs_diff(obs'.value, status.last_value)
          /\ ~obs'.should_log =>
                /\ ~obs'.printed
                /\ status' = [status EXCEPT !.last_luma = obs'.luma]
          /\ obs'.should_log =>
                /\ obs'.printed <=> Logger_log(cfg.logging, Low)
                /\ status' = [status EXCEPT !.last_value = obs'.value,
                                            !.last_luma = obs'.luma,
                                            !.last_print = 0]]_vars

\* a change below the threshold was not reported: the value it is compared
\* with stayed, the luma was taken
C34_Witness ==
    /\ obs.op = "record"
    /\ status.enabled /\ status.only_on_change
    /\ ~obs.should_log
    /\ obs.delta > 0
    /\ status.last_value # obs.value
    /\ status.last_luma = obs.luma /\ obs.luma > 0

\* this call of record is the first since creation whose delta reached
\* base_threshold
FirstChange == obs.op = "record" /\ obs.delta >= status.base_threshold /\ obs.changes = 1

---------------------------------------------------------------------------
(* main.rs: update_brightness on its own.                                  *)
(*                                                                         *)
(* The mapping is applied to adjusted lumas in [0, 1], from every state of *)
(* its two &mut arguments, for calibrated ranges on either side of the     *)
(* device's ceiling: loop holds the arguments of the call, obs the last    *)
(* call and what it returned.                                              *)

\* <<real_min, real_max, hardware_max>>
MappingRanges ==
    {<<47, 937, 900>>, <<12, 16, 20>>, <<12, 16, 14>>, <<12, 16, 11>>}

InitMapping ==
    /\ device = [max_brightness |-> MaxBrightness, brightness |-> 0]
    /\ running = TRUE
    /\ result = "none"
    /\ pc = "update_brightness"
    /\ cfg = BaseCfg
    /\ bl = Backlight_resolve(MaxBrightness)
    /\ ema = Ema_new(BaseCfg.smoothing_factor)
    /\ transition = SmoothTransition_new(0, 500, 1, 1)
    /\ capture_errors = ErrorThrottle_new(from_secs(1), Minimal)
    /\ status = StatusReporter_new(0, 1, 1, 1, 1, FALSE, FALSE)
    /\ \E r \in MappingRanges, min_luma_delta \in {1, 2} :
          loop = [has_luma |-> FALSE, last_adjusted_luma |-> 0,
                  min_luma_delta |-> min_luma_delta,
                  real_min |-> r[1], real_max |-> r[2], hardware_max |-> r[3]]
    /\ obs = [op |-> "new", adjusted |-> 0, had_luma |-> FALSE, last |-> 0, ret |-> None,
              anchor |-> 0]

UB_update ==
    /\ \E adjusted \in 0..LumaScale :
          LET r == update_brightness(adjusted, loop.has_luma, loop.last_adjusted_luma,
                                     loop.min_luma_delta, loop.real_max - loop.real_min,
                                     loop.real_min, loop.real_max, loop.hardware_max)
          IN /\ loop' = [loop EXCEPT !.has_luma = r.has_luma,
                                     !.last_adjusted_luma = r.last_adjusted_luma]
             /\ obs' = [op |-> "update", adjusted |-> adjusted,
                        had_luma |-> loop.has_luma, last |-> loop.last_adjusted_luma,
                        ret |-> r.ret,
                        \* the adjusted value of the last call that returned a target
                        anchor |-> IF IsSome(r.ret) THEN adjusted ELSE obs.anchor]
    /\ UNCHANGED <<cfg, device, running, pc, result, bl, ema, transition, capture_errors, status>>

NextMapping == UB_update

SpecMapping == InitMapping /\ [][NextMapping]_vars

\* round(a * (real_max - real_min) + real_min) for the call recorded in obs
MappedOf(o, l) == mapped_value(o.adjusted, l.real_max - l.real_min, l.real_min)

\* C20 as stated: a call that is not suppressed returns
\* round(a * (real_max - real_min) + real_min) clamped into
\* [real_min, min(real_max, hardware_max)], a value of that interval.
C20_MappedTarget ==
    (obs.op = "update" /\ IsSome(obs.ret)) =>
        /\ Unwrap(obs.ret) = clamp(MappedOf(obs, loop), loop.real_min,
                                   Min(loop.real_max, loop.hardware_max))
        /\ InRange(Unwrap(obs.ret), loop.real_min, Min(loop.real_max, loop.hardware_max))

\* C20 amended: a call is suppressed exactly when a previous luma exists and
\* differs from the new one by less than min_luma_delta; otherwise it returns
\* min(clamp(round(a * (real_max - real_min) + real_min), real_min, real_max),
\* hardware_max), which lies in [real_min, min(real_max, hardware_max)] when
\* hardware_max >= real_min and is hardware_max when hardware_max < real_min.
C20_MappedTargetAmended ==
    (obs.op = "update") =>
        /\ IsSome(obs.ret) <=>
               ~(obs.had_luma /\ abs_diff(obs.adjusted, obs.last) < loop.min_luma_delta)
        /\ IsSome(obs.ret) =>
              /\ Unwrap(obs.ret) = Min(clamp(MappedOf(obs, loop), loop.real_min, loop.real_max),
                                       loop.hardware_max)
              /\ (loop.hardware_max >= loop.real_min) =>
                     InRange(Unwrap(obs.ret), loop.real_min,
                             Min(loop.real_max, loop.hardware_max))
              /\ (loop.hardware_max < loop.real_min) => Unwrap(obs.ret) = loop.hardware_max

\* the example of the specification: a = 1.0 with 47, 937, 900 yields 900
C20_Witness ==
    /\ obs.op = "update"
    /\ obs.adjusted = LumaScale
    /\ loop.real_min = 47 /\ loop.real_max = 937 /\ loop.hardware_max = 900
    /\ obs.ret = Some(900)

\* C33: a call whose adjusted value differs from that of the call before by
\* less than min_luma_delta returns no target and becomes the value the next
\* call is compared with, so a run of such calls returns no target however
\* far it moves from the value that produced the last target.
C33_CreepNeverRetargets ==
    /\ [][(obs'.op = "update" /\ loop.has_luma
             /\ abs_diff(obs'.adjusted, loop.last_adjusted_luma) < loop.min_luma_delta)
            => /\ obs'.ret = None
               /\ obs'.anchor = obs.anchor
               /\ loop'.has_luma]_vars
    /\ [](obs.op = "update" => loop.last_adjusted_luma = obs.adjusted)

\* a call was suppressed although its value is two dead bands away from the
\* value that produced the last target
C33_Witness ==
    /\ obs.op = "update"
    /\ obs.had_luma /\ obs.ret = None
    /\ abs_diff(obs.adjusted, obs.anchor) >= 2 * loop.min_luma_delta

---------------------------------------------------------------------------
(* time_adjust.rs, smoothing.rs and normalize_luma on their own.           *)
(*                                                                         *)
(* Each function is applied to every input of a small set, from every      *)
(* configuration of a small set; obs holds the last call and its result.   *)

\* the variables none of these functions touches
InitPure ==
    /\ device = [max_brightness |-> MaxBrightness, brightness |-> 0]
    /\ running = TRUE
    /\ result = "none"
    /\ bl = Backlight_resolve(MaxBrightness)
    /\ transition = SmoothTransition_new(0, 500, 1, 1)
    /\ capture_errors = ErrorThrottle_new(from_secs(1), Minimal)
    /\ status = StatusReporter_new(0, 1, 1, 1, 1, FALSE, FALSE)

StartHours == {0, 6, 12, 18, 23}

InitCircadian ==
    /\ InitPure
    /\ pc = "is_day"
    /\ \E d \in StartHours, n \in StartHours :
          cfg = [BaseCfg EXCEPT !.circadian_day_start_hour = d,
                                !.circadian_night_start_hour = n]
    /\ ema = Ema_new(BaseCfg.smoothing_factor)
    /\ loop = TimeAdjuster_from_config(cfg)
    /\ obs = [op |-> "new", hour |-> 0, day |-> FALSE, factor |-> 0]

TA_is_day ==
    /\ \E hour \in 0..23 :
          obs' = [op |-> "is_day", hour |-> hour, day |-> is_day(loop, hour),
                  factor |-> factor_now(loop, hour)]
    /\ UNCHANGED <<cfg, device, running, pc, result, bl, ema, transition, capture_errors,
                   status, loop>>

NextCircadian == TA_is_day

SpecCircadian == InitCircadian /\ [][NextCircadian]_vars

\* C22: an hour counts as day iff it lies in [day_start_hour,
\* night_start_hour), a window that wraps midnight when day_start_hour is
\* above night_start_hour; with 18 and 6, hours 20 and 2 are day and hour 10
\* is night.
C22_IsDay ==
    (obs.op = "is_day") =>
        LET d == loop.day_start_hour
            n == loop.night_start_hour
            h == obs.hour
        IN /\ obs.day <=> \/ (d <= n /\ d <= h /\ h < n)
                          \/ (d > n /\ (h >= d \/ h < n))
           /\ (d = 18 /\ n = 6 /\ h \in {20, 2}) => obs.day
           /\ (d = 18 /\ n = 6 /\ h = 10) => ~obs.day
           /\ obs.factor = IF obs.day THEN loop.day_multiplier ELSE loop.night_multiplier

\* hour 2 of a window from 18 to 6 was found to be day
C22_Witness ==
    /\ obs.op = "is_day"
    /\ loop.day_start_hour = 18 /\ loop.night_start_hour = 6
    /\ obs.hour = 2
    /\ obs.day

\* alpha as configured, in percent; Ema::new clamps it into [0, 1]
Alphas == {0, 30, 50, 100, 150}

InitEma ==
    /\ InitPure
    /\ pc = "ema"
    /\ \E a \in Alphas :
          /\ cfg = [BaseCfg EXCEPT !.smoothing_factor = a]
          /\ ema = Ema_new(a)
    /\ loop = [max_duration |-> None]
    /\ obs = [op |-> "new", x |-> 0, before |-> Ema_new(0), ret |-> 0, updates |-> 0]

Ema_step ==
    /\ \E x \in 0..LumaScale :
          /\ ema' = Ema_update(ema, x)
          /\ obs' = [op |-> "update", x |-> x, before |-> ema, ret |-> ema'.value,
                     updates |-> Min(obs.updates + 1, 2)]
    /\ UNCHANGED <<cfg, device, running, pc, result, bl, transition, capture_errors,
                   status, loop>>

NextEma == Ema_step

SpecEma == InitEma /\ [][NextEma]_vars

\* C23: the first update of a fresh smoother returns its input and stores it
\* as the value; every later update stores and returns
\* alpha * x + (1 - alpha) * value; alpha and the seeded flag are kept.
C23_EmaUpdate ==
    (obs.op = "update") =>
        /\ (obs.updates = 1) <=> ~obs.before.init
        /\ ~obs.before.init => obs.ret = obs.x /\ ema.value = obs.x
        /\ obs.before.init =>
              /\ ema.value = (ema.alpha * obs.x + (100 - ema.alpha) * obs.before.value) \div 100
              /\ obs.ret = ema.value
        /\ ema.init /\ ema.alpha = obs.before.alpha

\* a first update with a blending alpha returned its nonzero input
C23_Witness ==
    /\ obs.op = "update"
    /\ ~obs.before.init
    /\ ema.alpha = 30
    /\ obs.x = LumaScale /\ obs.ret = LumaScale

\* the calibration bounds of the configuration
LumaBounds == {None, Some(0), Some(1), Some(LumaScale - 1), Some(LumaScale)}

InitNormalize ==
    /\ InitPure
    /\ pc = "normalize_luma"
    /\ \E lo \in LumaBounds, hi \in LumaBounds :
          cfg = [BaseCfg EXCEPT !.camera_min_luma = lo, !.camera_max_luma = hi]
    /\ ema = Ema_new(BaseCfg.smoothing_factor)
    /\ loop = [max_duration |-> None]
    /\ obs = [op |-> "new", raw |-> 0, ret |-> 0]

NL_normalize ==
    /\ \E raw \in 0..LumaScale :
          obs' = [op |-> "normalize", raw |-> raw, ret |-> normalize_luma(cfg, raw)]
    /\ UNCHANGED <<cfg, device, running, pc, result, bl, ema, transition, capture_errors,
                   status, loop>>

NextNormalize == NL_normalize

SpecNormalize == InitNormalize /\ [][NextNormalize]_vars

\* both bounds present and max above min
Calibrated(c) ==
    /\ IsSome(c.camera_min_luma) /\ IsSome(c.camera_max_luma)
    /\ Unwrap(c.camera_max_luma) > Unwrap(c.camera_min_luma)

\* C24: with both bounds present and max > min the result is
\* (raw - min) / (max - min) clamped into [0, 1]; otherwise it is raw.
C24_NormalizeLuma ==
    (obs.op = "normalize") =>
        /\ Calibrated(cfg) =>
              /\ obs.ret = clamp(((obs.raw - Unwrap(cfg.camera_min_luma)) * LumaScale)
                                    \div (Unwrap(cfg.camera_max_luma) - Unwrap(cfg.camera_min_luma)),
                                 0, LumaScale)
              /\ InRange(obs.ret, 0, LumaScale)
        /\ ~Calibrated(cfg) => obs.ret = obs.raw

\* a raw value above max was clamped to 1, or one below min to 0
C24_Witness ==
    /\ obs.op = "normalize"
    /\ \/ /\ cfg.camera_min_luma = Some(0) /\ cfg.camera_max_luma = Some(1)
          /\ obs.raw = LumaScale /\ obs.ret = LumaScale
       \/ /\ cfg.camera_min_luma = Some(1) /\ cfg.camera_max_luma = Some(LumaScale)
          /\ obs.raw = 0 /\ obs.ret = 0

---------------------------------------------------------------------------
(* backlight.rs: Backlight::set on its own.                                *)
(*                                                                         *)
(* set is called with every value up to two above the device's ceiling,    *)
(* each write succeeding or failing; obs holds the last call, the cache    *)
(* before it and what the call did.                                        *)

InitBacklight ==
    /\ running = TRUE
    /\ result = "none"
    /\ pc = "backlight"
    /\ cfg = BaseCfg
    /\ ema = Ema_new(BaseCfg.smoothing_factor)
    /\ transition = SmoothTransition_new(0, 500, 1, 1)
    /\ capture_errors = ErrorThrottle_new(from_secs(1), Minimal)
    /\ status = StatusReporter_new(0, 1, 1, 1, 1, FALSE, FALSE)
    /\ loop = [max_duration |-> None]
    /\ \E m \in {MaxBrightness - 1, MaxBrightness}, b \in {0, MaxBrightness - 1} :
          /\ device = [max_brightness |-> m, brightness |-> b]
          /\ bl = Backlight_resolve(m)
    /\ obs = [op |-> "resolve", value |-> 0, v |-> 0, before |-> None, wrote |-> FALSE,
              ok |-> TRUE, after_failure |-> FALSE]

BL_set ==
    /\ \E value \in 0..(MaxBrightness + 2), write_ok \in BOOLEAN :
          LET w == set(bl, value, write_ok)
          IN /\ bl' = w.self
             /\ device' = IF w.wrote /\ w.ok THEN [device EXCEPT !.brightness = w.v] ELSE device
             /\ obs' = [op |-> "set", value |-> value, v |-> w.v, before |-> bl.last_value,
                        wrote |-> w.wrote, ok |-> w.ok,
                        \* the previous call's write of this very value failed
                        after_failure |-> obs.wrote /\ ~obs.ok /\ obs.v = w.v]
    /\ UNCHANGED <<cfg, running, pc, result, ema, transition, capture_errors, status, loop>>

NextBacklight == BL_set

SpecBacklight == InitBacklight /\ [][NextBacklight]_vars

\* C25: set clamps its argument into [0, max_value]; it skips the device
\* write iff the clamped value is the cached one; the cache is the value of
\* the last write that succeeded and changes on no other call, so the call
\* that follows a failed write of v with the same v writes again.
C25_BacklightSet ==
    /\ [](obs.op = "set" =>
            /\ obs.v = Min(obs.value, bl.max_value)
            /\ InRange(obs.v, 0, bl.max_value)
            /\ ~obs.wrote <=> obs.before = Some(obs.v)
            /\ ~obs.wrote => obs.ok
            /\ bl.last_value = IF obs.wrote /\ obs.ok THEN Some(obs.v) ELSE obs.before
            /\ (obs.wrote /\ obs.ok) => device.brightness = obs.v)
    /\ [](obs.after_failure => obs.wrote)
    /\ [][(obs'.wrote /\ obs'.ok) \/ device' = device]_vars

\* the write of a value above the ceiling failed, and the next call with it
\* wrote the ceiling over another cached value
C25_Witness ==
    /\ obs.op = "set"
    /\ obs.after_failure
    /\ obs.wrote /\ obs.ok
    /\ obs.value = MaxBrightness + 2 /\ obs.v = bl.max_value
    /\ IsSome(obs.before) /\ obs.before # Some(obs.v)

---------------------------------------------------------------------------
(* main.rs: main and run_brightness_loop.                                  *)
(*                                                                         *)
(* pc follows the main thread: "validate", "dispatch", "interval_check"    *)
(* (line 100), "loop_entry" (137), "loop_init" (192), "tick_top" (231),    *)
(* "capture" (243), "status" (271), "step" (274), "sleep" (280),           *)
(* "loop_ret" (the loop has returned Ok), "pause_cond" (117),              *)
(* "pause_flag" (118), "pause_sleep" (121), and the ends "stopped",        *)
(* "failed", "panicked".  The Ctrl-C handler and the passing of time       *)
(* interleave with it.                                                     *)

Terminal == {"stopped", "failed", "panicked"}
TickBody == {"capture", "status", "step", "sleep"}
PausePhase == {"pause_cond", "pause_flag", "pause_sleep"}

\* the configurations and devices the runs start from
RealMin == BaseCfg.real_min_brightness
Dev(m, b) == [max_brightness |-> m, brightness |-> b]
QuietCfg ==
    [BaseCfg EXCEPT !.smoothing_factor = 100, !.log_target_brightness = FALSE]
LoopRuns ==
    \* every kind of device ceiling and first reading, in Realtime mode
    {[cfg |-> QuietCfg, device |-> Dev(m, b)] :
        m \in {RealMin - 3, RealMin - 1, RealMin + 2, RealMin + 8},
        b \in {RealMin - 2, RealMin + 4}}
    \* a ceiling equal to real_min, the device below the calibrated range
    \cup {[cfg |-> QuietCfg, device |-> Dev(RealMin, RealMin - 2)]}
    \* every mode, with and without the interval_boot override
    \cup {[cfg |-> [QuietCfg EXCEPT !.mode = m], device |-> Dev(RealMin + 8, RealMin)] :
            m \in {"Boot", "Interval"}}
    \cup {[cfg |-> c, device |-> Dev(RealMin + 8, RealMin + 1)] :
            c \in {[QuietCfg EXCEPT !.mode = "Boot", !.interval_boot = TRUE],
                   [QuietCfg EXCEPT !.mode = "Realtime", !.interval_boot = TRUE],
                   [QuietCfg EXCEPT !.mode = "Interval", !.interval_boot = TRUE],
                   \* a silent logger
                   [QuietCfg EXCEPT !.logging = Off],
                   \* the status reporter on; smoothing; finer steps
                   [QuietCfg EXCEPT !.log_target_brightness = TRUE, !.mode = "Boot",
                                    !.status_interval_secs = 1, !.run_duration = 1500],
                   [QuietCfg EXCEPT !.smoothing_factor = 50, !.mode = "Boot",
                                    !.run_duration = 2000],
                   [QuietCfg EXCEPT !.smooth_step_divisor = 1, !.smooth_max_step = 3,
                                    !.min_luma_delta = 1, !.enable_circadian = FALSE],
                   \* no calibration bounds: pass-through normalization
                   [QuietCfg EXCEPT !.camera_min_luma = None, !.mode = "Boot"],
                   \* configurations validate rejects
                   [QuietCfg EXCEPT !.real_max_brightness = RealMin],
                   [QuietCfg EXCEPT !.smooth_interval_ms = 0],
                   [QuietCfg EXCEPT !.capture_interval_ms = 0],
                   [QuietCfg EXCEPT !.status_threshold = 0],
                   [QuietCfg EXCEPT !.error_throttle_secs = 0],
                   [QuietCfg EXCEPT !.smoothing_factor = 0],
                   [QuietCfg EXCEPT !.smoothing_factor = 101],
                   [QuietCfg EXCEPT !.camera_min_luma = Some(LumaScale),
                                    !.camera_max_luma = Some(0)]}}
RawLumas == {0, LumaScale \div 2, LumaScale}
Hours == {2, 10}

\* the state of a loop that is not running (dropped at return, not yet created)
NoTransition == SmoothTransition_new(0, 0, 0, 0)
NoStatus == StatusReporter_new(0, 0, 0, 0, 0, FALSE, FALSE)
NoThrottle == ErrorThrottle_new(0, Minimal)
NoLoop ==
    [max_duration |-> None, start_time |-> 0, hardware_max |-> 0,
     last_capture |-> 0, last_adjusted_luma |-> 0, has_luma |-> FALSE,
     work_done |-> FALSE, sleep_start |-> 0]
NoTick ==
    [captured |-> "none", adjusted |-> 0, new_target |-> None, recorded |-> 0,
     set |-> None, written |-> None, write |-> "none", fault |-> "none", handed |-> FALSE,
     fault_gap |-> None, slept |-> None]

Init ==
    /\ \E run \in LoopRuns : cfg = run.cfg /\ device = run.device
    /\ running = TRUE
    /\ pc = "validate"
    /\ result = "none"
    /\ bl = Backlight_resolve(0)
    /\ ema = Ema_new(0)
    /\ transition = NoTransition
    /\ status = NoStatus
    /\ capture_errors = NoThrottle
    /\ loop = NoLoop
    /\ obs = [tick |-> NoTick, since_emit |-> None, cancelled_at |-> "none", reading |-> None,
              chunks_after_cancel |-> 0, phases |-> 0, pause |-> None, exit |-> "none",
              left |-> 0, warnings |-> {}, ticks |-> 0]

Validate_no_override ==
    /\ pc = "validate"
    /\ IF validate(cfg)
       THEN pc' = "dispatch" /\ UNCHANGED <<cfg, result>>
       ELSE pc' = "failed" /\ result' = "err" /\ UNCHANGED cfg
    /\ UNCHANGED <<device, running, bl, ema, transition, status, capture_errors, loop, obs>>

\* main, lines 59-76: validation, then the interval_boot override
Validate ==
    /\ pc = "validate"
    /\ IF validate(cfg)
       THEN /\ cfg' = IF cfg.interval_boot THEN [cfg EXCEPT !.mode = "Interval"] ELSE cfg
            /\ pc' = "dispatch"
            /\ UNCHANGED result
       ELSE /\ pc' = "failed"
            /\ result' = "err"
            /\ UNCHANGED cfg
    /\ UNCHANGED <<device, running, bl, ema, transition, status, capture_errors, loop, obs>>

\* main, lines 87-99: match cfg.mode
Dispatch ==
    /\ pc = "dispatch"
    /\ IF cfg.mode = "Realtime"
       THEN pc' = "loop_entry" /\ loop' = [loop EXCEPT !.max_duration = None]
       ELSE IF cfg.mode = "Boot"
       THEN /\ pc' = "loop_entry"
            /\ loop' = [loop EXCEPT !.max_duration = Some(from_secs_f64(cfg.run_duration))]
       ELSE pc' = "interval_check" /\ UNCHANGED loop
    /\ UNCHANGED <<cfg, device, running, result, bl, ema, transition, status,
                   capture_errors, obs>>

\* main, lines 100-107: the head of the Interval loop
IntervalCheck ==
    /\ pc = "interval_check"
    /\ IF running
       THEN /\ pc' = "loop_entry"
            /\ loop' = [loop EXCEPT !.max_duration = Some(from_secs_f64(cfg.run_duration))]
            /\ UNCHANGED result
       ELSE /\ pc' = "stopped"
            /\ result' = "ok"
            /\ UNCHANGED loop
    /\ UNCHANGED <<cfg, device, running, bl, ema, transition, status, capture_errors, obs>>

LoopEntry_unresolved_continues ==
    /\ pc = "loop_entry"
    /\ pc' = "loop_init"
    /\ \E resolved \in BOOLEAN :
          /\ bl' = Backlight_resolve(IF resolved THEN device.max_brightness ELSE 0)
          /\ loop' = [loop EXCEPT !.start_time = 0,
                                  !.hardware_max = IF resolved THEN device.max_brightness
                                                   ELSE 0]
          /\ obs' = [obs EXCEPT !.phases = Min(@ + 1, 2), !.tick = NoTick,
                                !.exit = IF resolved THEN "none" ELSE "no_backlight",
                                !.left = 0, !.warnings = {}]
    /\ UNCHANGED <<cfg, device, running, result, ema, transition, status, capture_errors>>

\* run_brightness_loop, lines 137-190: the backlight is resolved and the range
\* diagnostics are evaluated; hardware_max - 10 underflows below 10, which
\* panics in a build with overflow checks and wraps in one without.
\* obs.warnings is the set of warnings this startup wrote.
LoopEntry ==
    /\ pc = "loop_entry"
    /\ \E resolved \in BOOLEAN, checked \in BOOLEAN :
          IF ~resolved
          THEN /\ pc' = "failed" /\ result' = "err"
               /\ obs' = [obs EXCEPT !.phases = Min(@ + 1, 2), !.tick = NoTick,
                                     !.exit = "no_backlight", !.left = 0,
                                     !.warnings = {}]
               /\ UNCHANGED <<bl, loop>>
          ELSE /\ bl' = Backlight_resolve(device.max_brightness)
               /\ obs' = [obs EXCEPT
                             !.phases = Min(@ + 1, 2), !.tick = NoTick,
                             !.exit = "none", !.left = 0,
                             !.warnings =
                                 IF cfg.real_min_brightness > min_value(bl') + 10
                                    /\ Logger_log(cfg.logging, Minimal)
                                 THEN {"min_above_hardware"} ELSE {}]
               /\ loop' = [loop EXCEPT !.start_time = 0,
                                       !.hardware_max = device.max_brightness]
               /\ IF device.max_brightness < 10 /\ checked
                  THEN pc' = "panicked" /\ result' = "panic"
                  ELSE pc' = "loop_init" /\ UNCHANGED result
    /\ UNCHANGED <<cfg, device, running, ema, transition, status, capture_errors>>

LoopInit_unclamped_start ==
    /\ pc = "loop_init"
    /\ \E opened \in BOOLEAN, readable \in BOOLEAN :
          IF ~opened
          THEN /\ pc' = "failed" /\ result' = "err"
               /\ obs' = [obs EXCEPT !.exit = "no_camera"]
               /\ UNCHANGED <<ema, transition, status, capture_errors, loop>>
          ELSE LET reading == IF readable THEN device.brightness
                              ELSE cfg.real_min_brightness
                   start_val == reading
               IN /\ ema' = Ema_new(cfg.smoothing_factor)
                  /\ transition' = SmoothTransition_new(start_val, cfg.smooth_interval_ms,
                                       cfg.smooth_step_divisor, cfg.smooth_max_step)
                  /\ status' = StatusReporter_new(start_val, cfg.status_interval_secs,
                                   cfg.status_threshold, cfg.status_fast_interval_secs,
                                   cfg.status_fast_threshold, cfg.log_target_brightness,
                                   cfg.status_log_only_on_change)
                  /\ capture_errors' =
                         ErrorThrottle_new(from_secs(cfg.error_throttle_secs), Minimal)
                  /\ loop' = [loop EXCEPT
                                 !.last_capture = from_millis(cfg.capture_interval_ms),
                                 !.last_adjusted_luma = 0,
                                 !.has_luma = FALSE,
                                 !.work_done = FALSE]
                  /\ obs' = [obs EXCEPT !.reading = IF readable THEN Some(device.brightness)
                                                    ELSE None]
                  /\ pc' = "tick_top"
                  /\ UNCHANGED result
    /\ UNCHANGED <<cfg, device, running, bl>>

\* run_brightness_loop, lines 192-229: the camera is opened and the state of
\* the loop is created from the configuration and a first backlight reading
LoopInit ==
    /\ pc = "loop_init"
    /\ \E opened \in BOOLEAN, readable \in BOOLEAN :
          IF ~opened
          THEN /\ pc' = "failed" /\ result' = "err"
               /\ obs' = [obs EXCEPT !.exit = "no_camera"]
               /\ UNCHANGED <<ema, transition, status, capture_errors, loop>>
          ELSE LET reading == IF readable THEN device.brightness
                              ELSE cfg.real_min_brightness
                   start_val == clamp(reading, cfg.real_min_brightness,
                                      cfg.real_max_brightness)
               IN /\ ema' = Ema_new(cfg.smoothing_factor)
                  /\ transition' = SmoothTransition_new(start_val, cfg.smooth_interval_ms,
                                       cfg.smooth_step_divisor, cfg.smooth_max_step)
                  /\ status' = StatusReporter_new(start_val, cfg.status_interval_secs,
                                   cfg.status_threshold, cfg.status_fast_interval_secs,
                                   cfg.status_fast_threshold, cfg.log_target_brightness,
                                   cfg.status_log_only_on_change)
                  /\ capture_errors' =
                         ErrorThrottle_new(from_secs(cfg.error_throttle_secs), Minimal)
                  /\ loop' = [loop EXCEPT
                                 !.last_capture = from_millis(cfg.capture_interval_ms),
                                 !.last_adjusted_luma = 0,
                                 !.has_luma = FALSE,
                                 !.work_done = FALSE]
                  /\ obs' = [obs EXCEPT !.reading = IF readable THEN Some(device.brightness)
                                                    ELSE None]
                  /\ pc' = "tick_top"
                  /\ UNCHANGED result
    /\ UNCHANGED <<cfg, device, running, bl>>

\* whether run_brightness_loop's locals exist at position `at`
InLoop(at) == at \in {"loop_init", "tick_top"} \cup TickBody

\* the locals d ticks later
loop_later(l, d, at) ==
    [l EXCEPT !.start_time =
                  IF InLoop(at) /\ IsSome(l.max_duration)
                  THEN Older(@, d, Unwrap(l.max_duration)) ELSE @,
              !.last_capture =
                  IF InLoop(at) /\ at # "loop_init"
                  THEN Older(@, d, from_millis(cfg.capture_interval_ms)) ELSE @,
              !.sleep_start =
                  IF at \in PausePhase
                  THEN Older(@, d, from_secs_f64(cfg.pause_interval)) ELSE @]

obs_later(o, d) ==
    [o EXCEPT !.since_emit =
                  IF IsSome(@)
                  THEN Some(Older(Unwrap(@), d, from_secs(cfg.error_throttle_secs)))
                  ELSE @]

\* lines 233-234: a duration bound is set and has elapsed
Expired ==
    IsSome(loop.max_duration) /\ loop.start_time >= Unwrap(loop.max_duration)

TickTop_no_duration ==
    /\ pc = "tick_top"
    /\ IF ~running
       THEN /\ pc' = "loop_ret"
            /\ obs' = [obs EXCEPT !.exit = "cancelled", !.left = Distance(transition),
                                  !.ticks = 0]
            /\ bl' = Backlight_resolve(0)
            /\ ema' = Ema_new(0)
            /\ transition' = NoTransition
            /\ status' = NoStatus
            /\ capture_errors' = NoThrottle
            /\ loop' = [NoLoop EXCEPT !.max_duration = loop.max_duration]
       ELSE /\ pc' = "capture"
            /\ loop' = [loop EXCEPT !.work_done = FALSE]
            /\ obs' = [obs EXCEPT !.tick = NoTick, !.ticks = Min(@ + 1, 2)]
            /\ UNCHANGED <<bl, ema, transition, status, capture_errors>>
    /\ UNCHANGED <<cfg, device, running, result>>

TickTop_flag_unread ==
    /\ pc = "tick_top"
    /\ pc' = "capture"
    /\ loop' = [loop EXCEPT !.work_done = FALSE]
    /\ obs' = [obs EXCEPT !.tick = NoTick, !.ticks = Min(@ + 1, 2)]
    /\ UNCHANGED <<cfg, device, running, result, bl, ema, transition, status, capture_errors>>

\* run_brightness_loop, lines 231-240: the flag, then the duration bound
TickTop ==
    /\ pc = "tick_top"
    /\ IF ~running
          \/ (IsSome(loop.max_duration) /\ loop.start_time >= Unwrap(loop.max_duration))
       THEN /\ pc' = "loop_ret"
            /\ obs' = [obs EXCEPT !.exit = IF ~running THEN "cancelled" ELSE "expired",
                                  !.left = Distance(transition),
                                  !.ticks = 0]
            /\ bl' = Backlight_resolve(0)
            /\ ema' = Ema_new(0)
            /\ transition' = NoTransition
            /\ status' = NoStatus
            /\ capture_errors' = NoThrottle
            /\ loop' = [NoLoop EXCEPT !.max_duration = loop.max_duration]
       ELSE /\ pc' = "capture"
            /\ loop' = [loop EXCEPT !.work_done = FALSE]
            /\ obs' = [obs EXCEPT !.tick = NoTick, !.ticks = Min(@ + 1, 2)]
            /\ UNCHANGED <<bl, ema, transition, status, capture_errors>>
    /\ UNCHANGED <<cfg, device, running, result>>

\* lines 242-268: a successful capture, reading `raw` at wall-clock hour `hour`
CaptureOk(raw, hour) ==
    LET normalized == normalize_luma(cfg, raw)
        smoothed == Ema_update(ema, normalized)
        adjusted == apply_circadian(cfg, TimeAdjuster_from_config(cfg),
                                    smoothed.value, hour)
        range == cfg.real_max_brightness - cfg.real_min_brightness
        r == update_brightness(adjusted, loop.has_luma, loop.last_adjusted_luma,
                               cfg.min_luma_delta, range, cfg.real_min_brightness,
                               cfg.real_max_brightness, loop.hardware_max)
    IN /\ ema' = smoothed
       /\ transition' = IF IsSome(r.ret)
                        THEN set_target(transition, Unwrap(r.ret), loop.hardware_max)
                        ELSE transition
       /\ loop' = [loop EXCEPT !.has_luma = r.has_luma,
                               !.last_adjusted_luma = r.last_adjusted_luma,
                               !.last_capture = 0,
                               !.work_done = TRUE]
       /\ obs' = [obs EXCEPT !.tick.captured = "ok",
                             !.tick.adjusted = adjusted,
                             !.tick.new_target = r.ret]
       /\ UNCHANGED capture_errors

CaptureErr_forgets ==
    LET r == log(capture_errors, cfg.logging)
        since == IF r.emitted THEN Some(0) ELSE obs.since_emit
    IN /\ capture_errors' = r.self
       /\ loop' = [loop EXCEPT !.last_capture = 0, !.work_done = TRUE,
                               !.has_luma = FALSE]
       /\ obs' = [obs EXCEPT !.tick.captured = "err",
                             !.tick.fault = "capture",
                             !.tick.handed = TRUE,
                             !.tick.fault_gap = since,
                             !.since_emit = since]
       /\ UNCHANGED <<ema, transition>>

CaptureErr_keeps_timer ==
    LET r == log(capture_errors, cfg.logging)
        since == IF r.emitted THEN Some(0) ELSE obs.since_emit
    IN /\ capture_errors' = r.self
       /\ loop' = [loop EXCEPT !.work_done = TRUE]
       /\ obs' = [obs EXCEPT !.tick.captured = "err",
                             !.tick.fault = "capture",
                             !.tick.handed = TRUE,
                             !.tick.fault_gap = since,
                             !.since_emit = since]
       /\ UNCHANGED <<ema, transition>>

\* lines 262-264: a failed capture goes to the throttle
CaptureErr ==
    LET r == log(capture_errors, cfg.logging)
        since == IF r.emitted THEN Some(0) ELSE obs.since_emit
    IN /\ capture_errors' = r.self
       /\ loop' = [loop EXCEPT !.last_capture = 0, !.work_done = TRUE]
       /\ obs' = [obs EXCEPT !.tick.captured = "err",
                             !.tick.fault = "capture",
                             !.tick.handed = TRUE,
                             !.tick.fault_gap = since,
                             !.since_emit = since]
       /\ UNCHANGED <<ema, transition>>

\* lines 242-268
Capture ==
    /\ pc = "capture"
    /\ pc' = "status"
    /\ IF loop.last_capture >= from_millis(cfg.capture_interval_ms)
       THEN \/ \E raw \in RawLumas, hour \in Hours : CaptureOk(raw, hour)
            \/ CaptureErr
       ELSE UNCHANGED <<ema, transition, capture_errors, loop, obs>>
    /\ UNCHANGED <<cfg, device, running, result, bl, status>>

Status_only_after_capture ==
    /\ pc = "status"
    /\ pc' = "step"
    /\ IF obs.tick.captured # "none"
       THEN /\ status' = record(status, cfg.logging, current_value(transition),
                                loop.last_adjusted_luma).self
            /\ obs' = [obs EXCEPT !.tick.recorded = @ + 1]
       ELSE UNCHANGED <<status, obs>>
    /\ UNCHANGED <<cfg, device, running, result, bl, ema, transition, capture_errors, loop>>

\* line 271
Status ==
    /\ pc = "status"
    /\ pc' = "step"
    /\ status' = record(status, cfg.logging, current_value(transition),
                        loop.last_adjusted_luma).self
    /\ obs' = [obs EXCEPT !.tick.recorded = @ + 1]
    /\ UNCHANGED <<cfg, device, running, result, bl, ema, transition, capture_errors, loop>>

Step_fatal_write ==
    /\ pc = "step"
    /\ transition' = update(transition).self
    /\ IF IsSome(update(transition).ret)
       THEN \E write_ok \in BOOLEAN :
               LET w == set(bl, Unwrap(update(transition).ret), write_ok)
               IN /\ bl' = w.self
                  /\ device' = IF w.wrote /\ w.ok
                               THEN [device EXCEPT !.brightness = w.v] ELSE device
                  /\ loop' = [loop EXCEPT !.work_done = TRUE]
                  /\ obs' = [obs EXCEPT
                                !.tick.set = update(transition).ret,
                                !.tick.written = IF w.wrote THEN Some(w.v) ELSE None,
                                !.tick.write = IF ~w.wrote THEN "cached"
                                               ELSE IF w.ok THEN "ok" ELSE "fail",
                                !.tick.fault = IF w.ok THEN @ ELSE "write",
                                !.tick.handed = IF w.ok THEN @ ELSE FALSE,
                                !.tick.fault_gap = IF w.ok THEN @ ELSE obs.since_emit]
                  /\ pc' = IF w.ok THEN "sleep" ELSE "failed"
                  /\ result' = IF w.ok THEN result ELSE "err"
       ELSE pc' = "sleep" /\ UNCHANGED <<bl, device, loop, obs, result>>
    /\ UNCHANGED <<cfg, running, ema, status, capture_errors>>

\* lines 273-277: the step is taken, then written; the result of set is dropped
Step ==
    /\ pc = "step"
    /\ pc' = "sleep"
    /\ transition' = update(transition).self
    /\ IF IsSome(update(transition).ret)
       THEN \E write_ok \in BOOLEAN :
               LET w == set(bl, Unwrap(update(transition).ret), write_ok)
               IN /\ bl' = w.self
                  /\ device' = IF w.wrote /\ w.ok
                               THEN [device EXCEPT !.brightness = w.v] ELSE device
                  /\ loop' = [loop EXCEPT !.work_done = TRUE]
                  /\ obs' = [obs EXCEPT
                                !.tick.set = update(transition).ret,
                                !.tick.written = IF w.wrote THEN Some(w.v) ELSE None,
                                !.tick.write = IF ~w.wrote THEN "cached"
                                               ELSE IF w.ok THEN "ok" ELSE "fail",
                                !.tick.fault = IF w.ok THEN @ ELSE "write",
                                !.tick.handed = IF w.ok THEN @ ELSE FALSE,
                                !.tick.fault_gap = IF w.ok THEN @ ELSE obs.since_emit]
       ELSE UNCHANGED <<bl, device, loop, obs>>
    /\ UNCHANGED <<cfg, running, result, ema, status, capture_errors>>

\* the 10 ms ceiling of a tick's sleep, line 288
SleepCeilingMs == 10

Sleep_no_ceiling ==
    /\ pc = "sleep"
    /\ pc' = "tick_top"
    /\ IF ~loop.work_done
       THEN LET capture_interval == from_millis(cfg.capture_interval_ms)
                capture_wait == IF loop.last_capture >= capture_interval THEN 0
                                ELSE capture_interval - loop.last_capture
                sleep_for == Min(capture_wait, time_until_next_step(transition))
            IN /\ transition' = SmoothTransition_later(transition, sleep_for)
               /\ status' = StatusReporter_later(status, sleep_for)
               /\ capture_errors' = ErrorThrottle_later(capture_errors, sleep_for)
               /\ loop' = loop_later(loop, sleep_for, pc)
               /\ obs' = [obs_later(obs, sleep_for) EXCEPT
                             !.tick = [NoTick EXCEPT !.slept = Some(sleep_for)]]
       ELSE /\ obs' = [obs EXCEPT !.tick = NoTick]
            /\ UNCHANGED <<transition, status, capture_errors, loop>>
    /\ UNCHANGED <<cfg, device, running, result, bl, ema>>

\* lines 279-294
Sleep ==
    /\ pc = "sleep"
    /\ pc' = "tick_top"
    /\ IF ~loop.work_done
       THEN LET capture_interval == from_millis(cfg.capture_interval_ms)
                capture_wait == IF loop.last_capture >= capture_interval THEN 0
                                ELSE capture_interval - loop.last_capture
                smooth_wait == time_until_next_step(transition)
                sleep_for == Min(Min(capture_wait, smooth_wait),
                                 from_millis(SleepCeilingMs))
            IN /\ transition' = SmoothTransition_later(transition, sleep_for)
               /\ status' = StatusReporter_later(status, sleep_for)
               /\ capture_errors' = ErrorThrottle_later(capture_errors, sleep_for)
               /\ loop' = loop_later(loop, sleep_for, pc)
               /\ obs' = [obs_later(obs, sleep_for) EXCEPT
                             !.tick = [NoTick EXCEPT !.slept = Some(sleep_for)]]
       ELSE /\ obs' = [obs EXCEPT !.tick = NoTick]
            /\ UNCHANGED <<transition, status, capture_errors, loop>>
    /\ UNCHANGED <<cfg, device, running, result, bl, ema>>

\* main after run_brightness_loop returned Ok: lines 89, 94 and 107-116
MainAfterLoop ==
    /\ pc = "loop_ret"
    /\ IF cfg.mode = "Interval" /\ running
       THEN /\ pc' = "pause_cond"
            /\ loop' = [loop EXCEPT !.sleep_start = 0]
            /\ obs' = [obs EXCEPT !.pause = None, !.left = 0]
            /\ UNCHANGED result
       ELSE /\ pc' = "stopped"
            /\ result' = "ok"
            /\ obs' = [obs EXCEPT !.left = 0]
            /\ UNCHANGED loop
    /\ UNCHANGED <<cfg, device, running, bl, ema, transition, status, capture_errors>>

PauseCond_no_wait ==
    /\ pc = "pause_cond"
    /\ pc' = "interval_check"
    /\ obs' = [obs EXCEPT !.pause = Some(loop.sleep_start)]
    /\ UNCHANGED <<cfg, device, running, result, bl, ema, transition, status,
                   capture_errors, loop>>

\* line 117
PauseCond ==
    /\ pc = "pause_cond"
    /\ IF loop.sleep_start < from_secs_f64(cfg.pause_interval)
       THEN pc' = "pause_flag" /\ UNCHANGED obs
       ELSE pc' = "interval_check" /\ obs' = [obs EXCEPT !.pause = Some(loop.sleep_start)]
    /\ UNCHANGED <<cfg, device, running, result, bl, ema, transition, status,
                   capture_errors, loop>>

PauseFlag_flag_unread ==
    /\ pc = "pause_flag"
    /\ pc' = "pause_sleep"
    /\ UNCHANGED <<cfg, device, running, result, bl, ema, transition, status,
                   capture_errors, loop, obs>>

\* lines 118-120
PauseFlag ==
    /\ pc = "pause_flag"
    /\ pc' = IF ~running THEN "interval_check" ELSE "pause_sleep"
    /\ UNCHANGED <<cfg, device, running, result, bl, ema, transition, status,
                   capture_errors, loop, obs>>

\* the chunk of a pause, line 121
PauseChunkMs == 100

\* line 121
PauseSleep ==
    /\ pc = "pause_sleep"
    /\ pc' = "pause_cond"
    /\ loop' = loop_later(loop, from_millis(PauseChunkMs), pc)
    /\ obs' = [obs_later(obs, from_millis(PauseChunkMs)) EXCEPT
                  !.chunks_after_cancel = IF ~running THEN Min(@ + 1, 2) ELSE @]
    /\ UNCHANGED <<cfg, device, running, result, bl, ema, transition, status, capture_errors>>

\* the Ctrl-C handler, line 84
Cancel ==
    /\ running
    /\ pc \notin Terminal \cup {"validate"}
    /\ running' = FALSE
    /\ obs' = [obs EXCEPT !.cancelled_at = pc]
    /\ UNCHANGED <<cfg, device, pc, result, bl, ema, transition, status, capture_errors, loop>>

\* one clock tick passes: while the camera warms up, between two ticks of the
\* loop, after a tick's capture and write, and during a pause
Tick ==
    /\ pc \in {"loop_init", "tick_top", "sleep"} \cup PausePhase
    /\ transition' = SmoothTransition_later(transition, 1)
    /\ status' = StatusReporter_later(status, 1)
    /\ capture_errors' = ErrorThrottle_later(capture_errors, 1)
    /\ loop' = loop_later(loop, 1, pc)
    /\ obs' = obs_later(obs, 1)
    /\ UNCHANGED <<cfg, device, running, pc, result, bl, ema>>

\* the steps of the main thread
Program ==
    \/ Validate
    \/ Dispatch
    \/ IntervalCheck
    \/ LoopEntry
    \/ LoopInit
    \/ TickTop
    \/ Capture
    \/ Status
    \/ Step
    \/ Sleep
    \/ MainAfterLoop
    \/ PauseCond
    \/ PauseFlag
    \/ PauseSleep

Next == Program \/ Cancel \/ Tick

Spec == Init /\ [][Next]_vars

\* the runs the liveness claims are checked on: every mode, a device ceiling
\* below and at the bottom of the calibrated range, the rejected configurations
FairRuns ==
    {run \in LoopRuns :
        \/ ~validate(run.cfg)
        \/ /\ run.cfg = QuietCfg
           /\ run.device \in {Dev(RealMin - 1, RealMin - 2), Dev(RealMin, RealMin - 2)}
        \/ /\ run.cfg.mode # "Realtime"
           /\ run.cfg = [QuietCfg EXCEPT !.mode = run.cfg.mode]}

FairInit == Init /\ \E run \in FairRuns : cfg = run.cfg /\ device = run.device

\* the main thread keeps being scheduled
FairSpec == FairInit /\ [][Next]_vars /\ WF_vars(Program)

---------------------------------------------------------------------------
(* Claims about the control loop *)


\* C1 as stated: every value the loop passes to bl.set lies in
\* [real_min_brightness, min(real_max_brightness, hardware_max)].
C1_SetWithinCalibratedRange ==
    IsSome(obs.tick.set) =>
        InRange(Unwrap(obs.tick.set), cfg.real_min_brightness,
                Min(cfg.real_max_brightness, loop.hardware_max))

\* C1 amended: every value passed to bl.set lies in
\* [min(real_min, hardware_max), real_max], and every value bl.set writes to
\* the device lies in [min(real_min, hardware_max), min(real_max, hardware_max)];
\* the value passed lies in [real_min, min(real_max, hardware_max)] whenever
\* hardware_max >= real_min and the reading at loop entry is absent or at most
\* hardware_max.
C1_SetWithinRangeAmended ==
    IsSome(obs.tick.set) =>
        /\ InRange(Unwrap(obs.tick.set),
                   Min(cfg.real_min_brightness, loop.hardware_max),
                   cfg.real_max_brightness)
        /\ IsSome(obs.tick.written) =>
              InRange(Unwrap(obs.tick.written),
                      Min(cfg.real_min_brightness, loop.hardware_max),
                      Min(cfg.real_max_brightness, loop.hardware_max))
        /\ (/\ loop.hardware_max >= cfg.real_min_brightness
            /\ (IsSome(obs.reading) => Unwrap(obs.reading) <= loop.hardware_max))
           => InRange(Unwrap(obs.tick.set), cfg.real_min_brightness,
                      Min(cfg.real_max_brightness, loop.hardware_max))

\* a device ceiling inside the calibrated range is what the loop writes
C1_Witness ==
    /\ IsSome(obs.tick.set)
    /\ loop.hardware_max > cfg.real_min_brightness
    /\ loop.hardware_max < cfg.real_max_brightness
    /\ Unwrap(obs.tick.set) = loop.hardware_max
    /\ obs.tick.write = "ok"

\* C2 as stated: a tick whose hardware write fails does not advance the
\* Transition Controller's current (so the same value is written again).
C2_FailedWriteKeepsCurrent ==
    [][pc = "step" /\ pc' = "sleep" /\ obs'.tick.write = "fail"
          => transition'.current = transition.current]_vars

\* C5 as stated: every per-tick error, a failed capture or a failed write, is
\* handed to the Error Throttle, and (the logger passing warnings) is written
\* or lies within `interval` of a written one.
C5_ErrorsReachThrottle ==
    obs.tick.fault # "none" =>
        /\ obs.tick.handed
        /\ Logger_log(cfg.logging, Minimal) =>
              /\ IsSome(obs.tick.fault_gap)
              /\ Unwrap(obs.tick.fault_gap) < from_secs(cfg.error_throttle_secs)

\* C7: a successful capture produces a target iff there is no previous adjusted
\* value or the adjusted value differs from it by at least min_luma_delta; a
\* suppressed one leaves target and step alone; either way the adjusted value
\* becomes the previous one.
C7_DeadBandGate ==
    [][pc = "capture" /\ pc' = "status" /\ obs'.tick.captured = "ok" =>
          /\ IsSome(obs'.tick.new_target)
                <=> (\/ ~loop.has_luma
                     \/ abs_diff(obs'.tick.adjusted, loop.last_adjusted_luma)
                           >= cfg.min_luma_delta)
          /\ ~IsSome(obs'.tick.new_target)
                => /\ transition'.target = transition.target
                   /\ transition'.step = transition.step
          /\ loop'.has_luma
          /\ loop'.last_adjusted_luma = obs'.tick.adjusted]_vars

\* a capture inside the dead band, while the controller is still moving
C7_Witness ==
    /\ pc = "status"
    /\ obs.tick.captured = "ok"
    /\ ~IsSome(obs.tick.new_target)
    /\ loop.last_adjusted_luma = obs.tick.adjusted
    /\ transition.current # transition.target

\* C8: the flag is read at the top of every tick: once it is clear no tick
\* begins; a tick in progress goes through its capture, status, step and
\* sleep whatever the flag, performing a due capture and a due write; and the
\* process ends, in every mode and from a pause too.
C8_CooperativeCancel ==
    /\ [][~running => ~(pc = "tick_top" /\ pc' = "capture")]_vars
    /\ [][pc # pc' /\ pc \in TickBody =>
             /\ pc = "capture" => pc' = "status"
             /\ pc = "status" => pc' = "step"
             /\ pc = "step" => pc' = "sleep"
             /\ pc = "sleep" => pc' = "tick_top"]_vars
    /\ [][~running /\ pc = "capture" /\ pc' = "status"
             /\ loop.last_capture >= from_millis(cfg.capture_interval_ms)
             => obs'.tick.captured # "none"]_vars
    /\ [][~running /\ pc = "step" /\ pc' = "sleep" /\ IsSome(update(transition).ret)
             => obs'.tick.set = update(transition).ret]_vars
    /\ (~running ~> pc \in Terminal)

\* cancelled before a tick's capture: the capture and the write still happened
C8_Witness ==
    /\ ~running
    /\ obs.cancelled_at = "capture"
    /\ pc = "sleep"
    /\ obs.tick.captured = "ok"
    /\ obs.tick.write = "ok"

\* C9: in a pause the flag is read before every chunk; after a cancellation
\* during a pause at most one more chunk is slept, no active phase starts any
\* more, and the process stops.
C9_PauseCancel ==
    /\ [](obs.cancelled_at \in PausePhase =>
             /\ obs.chunks_after_cancel <= 1
             /\ pc \in PausePhase \cup {"interval_check", "stopped"})
    /\ [][pc' = "pause_sleep" /\ pc # "pause_sleep" => pc = "pause_flag" /\ running]_vars
    /\ [][pc = "pause_sleep" /\ pc' # pc =>
             loop'.sleep_start <= loop.sleep_start + from_millis(PauseChunkMs)]_vars
    /\ (obs.cancelled_at \in PausePhase ~> pc = "stopped")

\* cancelled after the flag was read: one more chunk was slept, then the stop
C9_Witness ==
    /\ obs.cancelled_at = "pause_sleep"
    /\ obs.chunks_after_cancel = 1
    /\ pc = "stopped"

\* C10: in Interval mode, an active phase that ends by its duration, the flag
\* still set, is followed by a new active phase; a new phase starts only after
\* a pause of at least pause_interval; nothing is captured or written during a
\* pause.
C10_IntervalAlternation ==
    /\ [](IsSome(obs.pause) => Unwrap(obs.pause) >= from_secs_f64(cfg.pause_interval))
    /\ [][pc' = "loop_entry" /\ pc # "loop_entry" /\ obs.phases >= 1
             => pc = "interval_check" /\ IsSome(obs.pause)]_vars
    /\ [][(pc \in PausePhase) =>
             (device' = device /\ ema' = ema /\ obs'.tick = obs.tick
              /\ (pc' \in PausePhase \/ pc' = "interval_check"))]_vars
    /\ (pc = "loop_ret" /\ obs.exit = "expired" /\ cfg.mode = "Interval"
           ~> (~running \/ pc = "loop_entry"))

\* the second active phase is running a tick
C10_Witness ==
    /\ running
    /\ cfg.mode = "Interval"
    /\ obs.phases = 2
    /\ IsSome(obs.pause)
    /\ pc = "capture"

\* C11: in Boot mode and in an active phase of Interval mode, a tick top at
\* which the duration bound has elapsed ends the loop before any capture,
\* status report or write, whatever is left of the transition; in Boot mode
\* the loop is not entered again and the process stops with Ok.
C11_DurationStop ==
    /\ [][(pc = "tick_top") /\ pc' # pc /\ Expired =>
             (pc' = "loop_ret" /\ device' = device /\ obs'.tick = obs.tick)]_vars
    /\ [][(pc = "loop_ret") /\ cfg.mode = "Boot" => (pc' = pc \/ pc' = "stopped")]_vars
    /\ [](cfg.mode = "Boot" /\ ~cfg.interval_boot => obs.phases <= 1)
    /\ [](cfg.mode = "Boot" /\ pc = "stopped" => result = "ok")
    /\ (pc = "tick_top" /\ Expired /\ cfg.mode = "Boot"
           ~> (pc = "stopped" /\ result = "ok"))

\* a Boot run has ended by its duration while the transition was under way
C11_Witness ==
    /\ cfg.mode = "Boot"
    /\ pc = "loop_ret"
    /\ running
    /\ obs.exit = "expired"
    /\ obs.left > 0

\* C12: a started loop is left only from a tick top, because the flag was
\* read clear or the duration bound had elapsed; a failed capture and a failed
\* write leave the loop running; in Realtime mode only the flag ends it.
C12_OnlyFlagOrDurationEnds ==
    /\ [][(pc \in {"tick_top"} \cup TickBody) /\ pc' \notin {"tick_top"} \cup TickBody =>
             (pc = "tick_top" /\ pc' = "loop_ret" /\ (~running \/ Expired))]_vars
    /\ [](obs.tick.captured = "err" \/ obs.tick.write = "fail"
             => pc \in TickBody /\ result = "none")
    /\ [](obs.exit = "expired" => cfg.mode # "Realtime")
    /\ [](cfg.mode = "Realtime" /\ pc = "loop_ret" => ~running)

\* a Realtime tick whose capture and whose write both failed goes on to its sleep
C12_Witness ==
    /\ cfg.mode = "Realtime"
    /\ running
    /\ pc = "sleep"
    /\ obs.tick.captured = "err"
    /\ obs.tick.write = "fail"

\* C15 as stated: a configuration whose calibration bounds are missing or
\* inverted does not keep the loop from starting, and a warning about the
\* bounds is among the warnings written at startup (C15's pass-through
\* normalization is normalize_luma's ELSE branch).
C15_BoundsToleratedAndWarned ==
    ~(/\ IsSome(cfg.camera_min_luma) /\ IsSome(cfg.camera_max_luma)
      /\ Unwrap(cfg.camera_max_luma) > Unwrap(cfg.camera_min_luma)) =>
        /\ pc = "failed" => obs.phases >= 1
        /\ (pc \in {"tick_top"} \cup TickBody /\ Logger_log(cfg.logging, Minimal))
              => "calibration_bounds" \in obs.warnings

\* C16: a configuration that breaks a pre-validation rule never gets past
\* validation: the loop is never entered, nothing is captured or written, and
\* main returns an error.
C16_InvalidConfigFailsStartup ==
    (\/ cfg.real_max_brightness <= cfg.real_min_brightness
     \/ cfg.capture_interval_ms = 0 \/ cfg.smooth_interval_ms = 0
     \/ cfg.status_interval_secs = 0 \/ cfg.status_fast_interval_secs = 0
     \/ cfg.error_throttle_secs = 0
     \/ cfg.status_threshold = 0 \/ cfg.status_fast_threshold = 0
     \/ cfg.smoothing_factor <= 0 \/ cfg.smoothing_factor > 100
     \/ (/\ IsSome(cfg.camera_min_luma) /\ IsSome(cfg.camera_max_luma)
         /\ Unwrap(cfg.camera_max_luma) <= Unwrap(cfg.camera_min_luma))) =>
        /\ pc \in {"validate", "failed"}
        /\ pc = "failed" => result = "err"
        /\ pc = "validate" => result = "none"
        /\ obs.phases = 0
        /\ obs.tick = NoTick
        /\ bl.last_value = None

\* a zero status threshold has been rejected
C16_Witness ==
    /\ cfg.status_threshold = 0
    /\ pc = "failed"
    /\ result = "err"
    /\ obs.phases = 0

\* C17: when the backlight cannot be resolved or the camera cannot be opened,
\* at the first entry of the loop or at a later one, no tick is run, nothing
\* is written and main returns the error.
C17_StartupFailurePropagates ==
    /\ [](obs.exit \in {"no_backlight", "no_camera"} =>
             /\ pc = "failed"
             /\ result = "err"
             /\ obs.tick = NoTick
             /\ bl.last_value = None)
    /\ [][(pc \in {"loop_entry", "loop_init"}) /\ pc' = "failed" =>
             (device' = device /\ result' = "err")]_vars

\* the camera could not be opened at a later active phase of Interval mode
C17_Witness ==
    /\ cfg.mode = "Interval"
    /\ obs.phases = 2
    /\ obs.exit = "no_camera"
    /\ pc = "failed"
    /\ result = "err"

\* C18: a failed capture changes neither the smoother, nor the previous
\* adjusted luma and its flag, nor the controller (target, step); the tick goes
\* on to its status and its step, which moves toward the same target.
C18_FailedCaptureKeepsState ==
    /\ [][(pc = "capture") /\ obs'.tick.captured = "err" =>
             /\ ema' = ema
             /\ loop'.last_adjusted_luma = loop.last_adjusted_luma
             /\ loop'.has_luma = loop.has_luma
             /\ transition' = transition
             /\ pc' = "status"]_vars
    /\ [][(pc = "step") /\ pc' # pc /\ obs.tick.captured = "err" =>
             /\ pc' = "sleep"
             /\ transition'.target = transition.target
             /\ transition'.step = transition.step
             /\ obs'.tick.set = update(transition).ret
             /\ Distance(transition') <= Distance(transition)]_vars

\* after a failed capture the same tick stepped on toward the earlier target
C18_Witness ==
    /\ pc = "sleep"
    /\ obs.tick.captured = "err"
    /\ IsSome(obs.tick.set)
    /\ obs.tick.write = "ok"
    /\ loop.has_luma
    /\ transition.current # transition.target

\* C19 as stated, with no capture and no write failing at all: if from some
\* tick on the loop keeps running and no new target is produced, the device's
\* value at some point equals the controller's target.
C19_DeviceConverges ==
    ([](obs.tick.write # "fail" /\ obs.tick.captured # "err")
       /\ <>[](pc \in {"tick_top"} \cup TickBody /\ ~IsSome(obs.tick.new_target)))
    => <>(pc \in {"tick_top"} \cup TickBody /\ device.brightness = transition.target)

\* C21: a valid configuration leaves validation with mode Interval when
\* interval_boot is set and with its configured mode when it is clear; the
\* mode is not changed afterwards, and the dispatch follows it: Interval
\* enters the phase loop, Boot a single loop bounded by run_duration,
\* Realtime a single unbounded loop.
C21_IntervalBootOverride ==
    /\ [][(pc = "validate" /\ pc' = "dispatch") =>
             cfg' = [cfg EXCEPT !.mode = IF cfg.interval_boot THEN "Interval" ELSE cfg.mode]]_vars
    /\ [][(pc # "validate") => cfg' = cfg]_vars
    /\ [][(pc = "dispatch" /\ pc' # pc) =>
             /\ (cfg.mode = "Interval") =>
                    pc' = "interval_check" /\ loop' = loop
             /\ (cfg.mode = "Boot") =>
                    /\ pc' = "loop_entry"
                    /\ loop'.max_duration = Some(from_secs_f64(cfg.run_duration))
             /\ (cfg.mode = "Realtime") =>
                    pc' = "loop_entry" /\ loop'.max_duration = None]_vars
    /\ [](pc \in {"interval_check"} \cup PausePhase => cfg.mode = "Interval")
    /\ [](obs.phases >= 2 => cfg.mode = "Interval")

\* a run with the override set is in its second active phase
C21_Witness ==
    /\ cfg.interval_boot /\ cfg.mode = "Interval"
    /\ pc \in TickBody
    /\ obs.phases = 2

\* the step of this tick wrote its value to the device
Wrote == pc = "step" /\ obs'.tick.write = "ok"

\* C26 as stated: within one active phase a tick writes to the device at most
\* once (the device is written by the step of a tick alone), two consecutive
\* writes are at least `interval` apart (a write happens at a step, and no
\* step sooner than `interval` after the last one), and the values of two
\* consecutive writes differ by at least 1 and at most max_step.
C26_RateLimitedWrites ==
    /\ [][(device' # device) => (Wrote /\ pc' = "sleep")]_vars
    /\ [][Wrote => (transition.last >= transition.interval /\ transition'.last = 0)]_vars
    /\ [][(Wrote /\ IsSome(bl.last_value)) =>
             /\ bl.last_value = Some(device.brightness)
             /\ InRange(abs_diff(device'.brightness, device.brightness),
                        1, transition.max_step)]_vars

\* C29: the end of a tick waits iff the tick made neither a capture attempt
\* nor a transition step; the wait is the least of the time until a capture is
\* due, the time until the next step (the sentinel when converged, otherwise
\* what is left of `interval`, at least 0) and 10 ms; no clock moves on a
\* zero wait (the thread yields), nor at the end of a tick that did work.
C29_SleepBudget ==
    [][(pc = "sleep" /\ pc' = "tick_top") =>
          LET worked == obs.tick.captured # "none" \/ IsSome(obs.tick.set)
              capture_interval == from_millis(cfg.capture_interval_ms)
              capture_wait == Max(0, capture_interval - loop.last_capture)
              smooth_wait == IF transition.current = transition.target
                             THEN from_secs(3600)
                             ELSE Max(0, transition.interval - transition.last)
              budget == Min(Min(capture_wait, smooth_wait), from_millis(SleepCeilingMs))
          IN /\ IsSome(obs'.tick.slept) <=> ~worked
             /\ ~worked => /\ obs'.tick.slept = Some(budget)
                           /\ budget <= from_millis(SleepCeilingMs)
                           /\ transition'.last = Older(transition.last, budget,
                                                       transition.interval)
             /\ (worked \/ budget = 0) =>
                    /\ transition' = transition
                    /\ loop' = loop]_vars

\* an idle tick slept for the whole ceiling, the controller converged and the
\* capture further away than that
C29_Witness ==
    /\ pc = "tick_top"
    /\ obs.tick.slept = Some(from_millis(SleepCeilingMs))
    /\ transition.current = transition.target
    /\ loop.last_capture < from_millis(cfg.capture_interval_ms)

\* C30: the first tick of every active phase attempts a capture; any tick
\* attempts one iff at least capture_interval has elapsed since the last
\* attempt ended; the attempt, successful or failed, restarts the capture
\* timer, and nothing else in the loop does.
C30_CaptureSchedule ==
    /\ [][(pc = "capture" /\ pc' = "status") =>
             LET due == loop.last_capture >= from_millis(cfg.capture_interval_ms)
             IN /\ (obs'.tick.captured # "none") <=> due
                /\ obs.ticks = 1 => due
                /\ loop'.last_capture = IF due THEN 0 ELSE loop.last_capture]_vars
    /\ [][(pc \in {"tick_top"} \cup TickBody /\ pc' \in {"tick_top"} \cup TickBody
             /\ loop'.last_capture < loop.last_capture)
            => (pc = "capture" /\ obs'.tick.captured # "none")]_vars
    /\ [](pc \in {"status", "step"} /\ obs.tick.captured # "none" => loop.last_capture = 0)

\* the first tick of a second active phase attempted a capture, which failed
\* and restarted the timer
C30_Witness ==
    /\ pc = "status"
    /\ obs.phases = 2 /\ obs.ticks = 1
    /\ obs.tick.captured = "err"
    /\ loop.last_capture = 0

\* C31: every tick that passes the checks at its top feeds the Status Reporter
\* exactly once, with the controller's current value and the last adjusted
\* luma as they are after the tick's capture and before its step, whether or
\* not the tick captured; nothing else in the loop calls the reporter.
C31_StatusFedEveryTick ==
    /\ [][(pc = "status" /\ pc' = "step") =>
             /\ status' = record(status, cfg.logging, transition.current,
                                 loop.last_adjusted_luma).self
             /\ obs'.tick.recorded = obs.tick.recorded + 1
             /\ transition' = transition /\ loop' = loop]_vars
    /\ [](pc \in {"capture", "status"} => obs.tick.recorded = 0 /\ ~IsSome(obs.tick.set))
    /\ [](pc \in {"step", "sleep"} => obs.tick.recorded = 1)
    /\ [][(pc \in TickBody /\ pc' \in TickBody
             /\ (status'.last_value # status.last_value \/ status'.last_luma # status.last_luma))
            => pc = "status"]_vars
    /\ [][(pc = "tick_top" /\ pc' # pc) => pc' \in {"capture", "loop_ret"}]_vars
    /\ [][(pc = "capture" /\ pc' # pc) => pc' = "status"]_vars

\* a tick without a capture fed the reporter of a disabled status log, which
\* took the adjusted luma of an earlier capture
C31_Witness ==
    /\ pc = "step"
    /\ obs.tick.captured = "none"
    /\ obs.tick.recorded = 1
    /\ ~status.enabled
    /\ status.last_value = transition.current
    /\ status.last_luma = loop.last_adjusted_luma
    /\ loop.last_adjusted_luma > 0

\* C35: every call of the loop, each Interval phase included, creates its
\* state anew: the smoother unseeded, no previous adjusted luma, the
\* controller converged at the backlight reading clamped into
\* [real_min, real_max] (real_min when there is no reading); the first
\* successful capture of the phase yields a target.
C35_FreshPhaseState ==
    /\ [][(pc = "loop_init" /\ pc' = "tick_top") =>
             LET reading == IF IsSome(obs'.reading) THEN Unwrap(obs'.reading)
                            ELSE cfg.real_min_brightness
                 start_val == Max(cfg.real_min_brightness,
                                  Min(reading, cfg.real_max_brightness))
             IN /\ IsSome(obs'.reading) => obs'.reading = Some(device.brightness)
                /\ ~ema'.init
                /\ ~loop'.has_luma
                /\ transition'.current = start_val /\ transition'.target = start_val
                /\ InRange(start_val, cfg.real_min_brightness, cfg.real_max_brightness)
                /\ status'.last_value = start_val
                /\ capture_errors'.last_log = None]_vars
    /\ [][(pc' = "loop_init" /\ pc # "loop_init") => pc = "loop_entry"]_vars
    /\ [][(pc' = "tick_top" /\ obs'.ticks = 0 /\ pc # "tick_top") => pc = "loop_init"]_vars
    /\ [](pc = "capture" /\ obs.ticks = 1 => ~ema.init /\ ~loop.has_luma)
    /\ [][(pc = "capture" /\ ~loop.has_luma /\ obs'.tick.captured = "ok") =>
             /\ IsSome(obs'.tick.new_target)
             /\ obs'.tick.adjusted = loop'.last_adjusted_luma]_vars
    /\ [][(pc \in TickBody /\ loop.has_luma # loop'.has_luma) =>
             (pc = "capture" /\ obs'.tick.captured = "ok")]_vars

\* the second Interval phase starts unseeded, from a reading above real_min
C35_Witness ==
    /\ pc = "tick_top"
    /\ obs.phases = 2 /\ obs.ticks = 0
    /\ ~ema.init /\ ~loop.has_luma
    /\ obs.reading = Some(device.brightness)
    /\ transition.current = device.brightness
    /\ transition.target = transition.current
    /\ device.brightness > cfg.real_min_brightness

---------------------------------------------------------------------------
(* The signal conditioning of one successful capture, main.rs:243-260, on  *)
(* its own: every valid calibration, alpha and circadian setting, every    *)
(* raw luma the sensor can return, at any hour.                            *)

\* circadian settings: off, a boost by day, a boost by night
PipelineCircadian == {<<FALSE, 100, 100>>, <<TRUE, 150, 50>>, <<TRUE, 80, 125>>}

PipelineCfgs ==
    {c \in {[BaseCfg EXCEPT !.camera_min_luma = lo, !.camera_max_luma = hi,
                            !.smoothing_factor = a,
                            !.enable_circadian = k[1],
                            !.circadian_day_multiplier = k[2],
                            !.circadian_night_multiplier = k[3]] :
                lo \in LumaBounds, hi \in LumaBounds, a \in Alphas,
                k \in PipelineCircadian} : validate(c)}

InitPipeline ==
    /\ InitPure
    /\ pc = "capture"
    /\ cfg \in PipelineCfgs
    /\ ema = Ema_new(cfg.smoothing_factor)
    /\ loop = [NoLoop EXCEPT !.hardware_max = cfg.real_max_brightness]
    /\ obs = [tick |-> NoTick]

PL_capture ==
    /\ \E raw \in 0..LumaScale, hour \in Hours : CaptureOk(raw, hour)
    /\ UNCHANGED <<cfg, device, running, pc, result, bl, status>>

NextPipeline == PL_capture

SpecPipeline == InitPipeline /\ [][NextPipeline]_vars

\* C36: the adjusted luma handed to the dead-band gate is within [0, 1],
\* calibrated or not, for every alpha in (0, 1], circadian on or off; so
\* are the smoothed value and the luma the gate remembers.
C36_AdjustedLumaInUnitRange ==
    /\ ema.alpha > 0 /\ ema.alpha <= 100
    /\ InRange(ema.value, 0, LumaScale)
    /\ InRange(obs.tick.adjusted, 0, LumaScale)
    /\ InRange(loop.last_adjusted_luma, 0, LumaScale)
    /\ (obs.tick.captured = "ok") => loop.last_adjusted_luma = obs.tick.adjusted
    /\ (obs.tick.captured = "ok" /\ ~cfg.enable_circadian) => obs.tick.adjusted = ema.value

\* a calibrated, blending pipeline whose circadian boost was cut off at 1
C36_Witness ==
    /\ obs.tick.captured = "ok"
    /\ Calibrated(cfg)
    /\ ema.alpha = 30
    /\ cfg.enable_circadian /\ cfg.circadian_day_multiplier = 150
    /\ ema.value = LumaScale - 1
    /\ obs.tick.adjusted = LumaScale

---------------------------------------------------------------------------
(* camera.rs: Camera::measure_luma on frames of a few pixels.              *)
(*                                                                         *)
(* A frame is the byte buffer of the stream: luma at the even offsets,     *)
(* chroma at the odd ones. Weights and the average are exact fractions:    *)
(* a weight is weight.num / weight.den, the result ret.num / ret.den.      *)

FrameW == 3
FrameH == 2

\* the chroma byte of every pixel pair, and the luma bytes of the frames
Chroma == 128
UniformLumas == {0, 1, 100, 255}
MixedLumas == {0, 255}

\* the YUYV buffer holding the luma samples ys
yuyv(ys) == [k \in 1..(2 * Len(ys)) |-> IF k % 2 = 1 THEN ys[(k + 1) \div 2] ELSE Chroma]

\* the frames a stream of n-pixel frames delivers: complete, empty, one
\* pixel short or one pixel long, uniform or mixed
Frames(n) ==
    {yuyv(ys) : ys \in UNION {[1..len -> MixedLumas] \cup {[k \in 1..len |-> v] : v \in UniformLumas} :
                                len \in {0, n - 1, n, n + 1}}}

\* lines 88-92: the weight of the sample at (px, py)
sample_weight(px, py, w, h) ==
    LET cx == w \div 2
        cy == h \div 2
        max_dist_sq == Max(cx * cx + cy * cy, 1)
        dx == px - cx
        dy == py - cy
        dist_sq == dx * dx + dy * dy
    IN [num |-> 10 * max_dist_sq - 8 * Min(dist_sq, max_dist_sq),
        den |-> 10 * max_dist_sq]

\* lines 67-96: the chunks the loop visits before it ends or breaks
visited(buf, w, h, half_precision) ==
    LET step == IF half_precision THEN 4 ELSE 2
        chunks == (Len(buf) + step - 1) \div step
    IN {i \in 0..(chunks - 1) : (IF half_precision THEN i * 2 ELSE i) < w * h}

measure_luma_flat_divisor(buf, w, h, half_precision) ==
    LET step == IF half_precision THEN 4 ELSE 2
        seen == visited(buf, w, h, half_precision)
        pixel_idx(i) == IF half_precision THEN i * 2 ELSE i
        weight(i) == sample_weight(pixel_idx(i) % w, pixel_idx(i) \div w, w, h)
        acc[i \in 0..Cardinality(seen)] ==
            IF i = Cardinality(seen) THEN [sum |-> 0, weight_sum |-> 0]
            ELSE LET rest == acc[i + 1]
                 IN [sum |-> buf[i * step + 1] * weight(i).num + rest.sum,
                     weight_sum |-> weight(i).den + rest.weight_sum]
        den == IF acc[0].weight_sum > 0 THEN 255 * acc[0].weight_sum ELSE 1
    IN [num |-> clamp(IF acc[0].weight_sum > 0 THEN acc[0].sum ELSE 0, 0, den),
        den |-> den]

\* lines 43-104: Ok(avg) as the fraction num / den
measure_luma(buf, w, h, half_precision) ==
    LET step == IF half_precision THEN 4 ELSE 2
        seen == visited(buf, w, h, half_precision)
        pixel_idx(i) == IF half_precision THEN i * 2 ELSE i
        weight(i) == sample_weight(pixel_idx(i) % w, pixel_idx(i) \div w, w, h)
        acc[i \in 0..Cardinality(seen)] ==
            IF i = Cardinality(seen) THEN [sum |-> 0, weight_sum |-> 0]
            ELSE LET rest == acc[i + 1]
                 IN [sum |-> buf[i * step + 1] * weight(i).num + rest.sum,
                     weight_sum |-> weight(i).num + rest.weight_sum]
        den == IF acc[0].weight_sum > 0 THEN 255 * acc[0].weight_sum ELSE 1
    IN [num |-> clamp(IF acc[0].weight_sum > 0 THEN acc[0].sum ELSE 0, 0, den),
        den |-> den]

\* Camera::open: a stream of w x h frames; buf is the frame its next() returns
InitCamera ==
    /\ InitPure
    /\ pc = "measure_luma"
    /\ \E w \in 1..FrameW, h \in 1..FrameH, half_precision \in BOOLEAN :
          cfg = [BaseCfg EXCEPT !.resolution = <<w, h>>,
                                !.half_precision = half_precision]
    /\ ema = Ema_new(BaseCfg.smoothing_factor)
    /\ \E buf \in Frames(cfg.resolution[1] * cfg.resolution[2]) :
          loop = [width |-> cfg.resolution[1], height |-> cfg.resolution[2], buf |-> buf]
    /\ obs = [op |-> "open", ret |-> [num |-> 0, den |-> 1], taken |-> {}]

\* measure_luma on the next frame of the stream
CAM_measure_luma ==
    /\ pc = "measure_luma"
    /\ pc' = "measured"
    /\ obs' = [op |-> "measure_luma",
               ret |-> measure_luma(loop.buf, loop.width, loop.height, cfg.half_precision),
               taken |-> {[px |-> (IF cfg.half_precision THEN i * 2 ELSE i) % loop.width,
                           py |-> (IF cfg.half_precision THEN i * 2 ELSE i) \div loop.width,
                           y |-> loop.buf[i * (IF cfg.half_precision THEN 4 ELSE 2) + 1]] :
                             i \in visited(loop.buf, loop.width, loop.height,
                                           cfg.half_precision)}]
    /\ UNCHANGED <<cfg, device, running, result, bl, ema, transition, capture_errors,
                   status, loop>>

NextCamera == CAM_measure_luma

SpecCamera == InitCamera /\ [][NextCamera]_vars

\* C37: measure_luma returns a value in [0, 1]; a frame whose luma samples
\* all equal v yields v/255, with or without half precision; the weight of
\* a sample is 1.0 at the frame centre and never below 0.2; a frame with no
\* samples yields 0.
C37_MeasureLuma ==
    (obs.op = "measure_luma") =>
        /\ obs.ret.den > 0 /\ InRange(obs.ret.num, 0, obs.ret.den)
        /\ (obs.taken # {} /\ \A k \in 1..Len(loop.buf) : k % 2 = 1 => loop.buf[k] = loop.buf[1])
              => obs.ret.num * 255 = loop.buf[1] * obs.ret.den
        /\ \A s \in obs.taken :
              LET weight == sample_weight(s.px, s.py, loop.width, loop.height)
              IN /\ weight.num <= weight.den /\ 5 * weight.num >= weight.den
                 /\ (s.px = loop.width \div 2 /\ s.py = loop.height \div 2)
                        => weight.num = weight.den
                 /\ s.px < loop.width /\ s.py < loop.height
                 /\ s.y # Chroma
        /\ (obs.taken = {}) <=> (Len(loop.buf) = 0)
        /\ (obs.taken = {}) => obs.ret.num = 0

\* a uniform frame of the largest size, sampled at half precision, with
\* samples of weight below 1, measured as 100/255
C37_Witness ==
    /\ obs.op = "measure_luma"
    /\ cfg.half_precision
    /\ loop.width = FrameW /\ loop.height = FrameH
    /\ Len(loop.buf) = 2 * FrameW * FrameH
    /\ \A k \in 1..Len(loop.buf) : k % 2 = 1 => loop.buf[k] = 100
    /\ Cardinality(obs.taken) = (FrameW * FrameH + 1) \div 2
    /\ \E s \in obs.taken :
          sample_weight(s.px, s.py, loop.width, loop.height).num
              < sample_weight(s.px, s.py, loop.width, loop.height).den
    /\ obs.ret.num * 255 = 100 * obs.ret.den

---------------------------------------------------------------------------
(* main.rs:139-179: the range diagnostics of run_brightness_loop's         *)
(* startup, in the u32 arithmetic of the source.  `checked` tells whether  *)
(* the build checks arithmetic overflow (it panics) or not (it wraps).     *)
(* TLC's integers end at 2^31 - 1, so the word is 30 bits wide here: the   *)
(* largest ceiling is U32 - 1 and a difference below zero wraps to the     *)
(* top of the word, as in the source.                                      *)

U32 == 2 ^ 30

\* the device ceilings max_brightness can hold, and the calibrated ranges
DiagCeilings == 0..(RealMin + 14) \cup {U32 - 1}
DiagRanges == {<<RealMin, RealMin + 4>>, <<0, 1>>, <<RealMin - 1, RealMin + 20>>}

\* lines 161-179: whether the evaluation panics, the right-hand sides of the
\* two comparisons, and the messages written
range_diagnostics(logger, real_min, real_max, hardware_min, hardware_max, checked) ==
    LET min_rhs == hardware_min + 10
        max_rhs == hardware_max - 10
        overflow == min_rhs >= U32 \/ max_rhs < 0
    IN IF overflow /\ checked
       THEN [panicked |-> TRUE, min_rhs |-> min_rhs % U32, max_rhs |-> max_rhs % U32,
             written |-> {}]
       ELSE [panicked |-> FALSE, min_rhs |-> min_rhs % U32, max_rhs |-> max_rhs % U32,
             written |->
                 {m \in {"min_above_hardware"} :
                     real_min > min_rhs % U32 /\ Logger_log(logger, Minimal)}
                 \cup {m \in {"max_below_hardware"} :
                     real_max < max_rhs % U32 /\ Logger_log(logger, Medium)}]

InitDiagnostics ==
    /\ pc = "loop_entry"
    /\ \E m \in DiagCeilings, r \in DiagRanges, l \in {Off, Minimal, Low, Medium} :
          /\ device = Dev(m, 0)
          /\ cfg = [BaseCfg EXCEPT !.real_min_brightness = r[1],
                                   !.real_max_brightness = r[2],
                                   !.logging = l]
    /\ running = TRUE
    /\ result = "none"
    /\ bl = Backlight_resolve(device.max_brightness)
    /\ ema = Ema_new(0)
    /\ transition = NoTransition
    /\ status = NoStatus
    /\ capture_errors = NoThrottle
    /\ loop = [NoLoop EXCEPT !.hardware_max = bl.max_value]
    /\ obs = [op |-> "resolve", checked |-> FALSE,
              ret |-> [panicked |-> FALSE, min_rhs |-> 0, max_rhs |-> 0, written |-> {}]]

RD_range_diagnostics ==
    /\ pc = "loop_entry"
    /\ \E checked \in BOOLEAN :
          /\ obs' = [op |-> "range_diagnostics", checked |-> checked,
                     ret |-> range_diagnostics(cfg.logging, cfg.real_min_brightness,
                                               cfg.real_max_brightness, min_value(bl),
                                               loop.hardware_max, checked)]
          /\ pc' = IF obs'.ret.panicked THEN "panicked" ELSE "loop_init"
          /\ result' = IF obs'.ret.panicked THEN "panic" ELSE result
    /\ UNCHANGED <<cfg, device, running, bl, ema, transition, capture_errors, status, loop>>

NextDiagnostics == RD_range_diagnostics

SpecDiagnostics == InitDiagnostics /\ [][NextDiagnostics]_vars

\* C38: the startup range diagnostics are evaluated in u32 without underflow
\* or overflow for every device ceiling: nothing panics, the right-hand
\* sides are hardware_min + 10 and hardware_max - 10, and a message is
\* written only when its comparison holds of those values.
C38_RangeDiagnosticsNoUnderflow ==
    (obs.op = "range_diagnostics") =>
        /\ ~obs.ret.panicked /\ pc # "panicked"
        /\ obs.ret.min_rhs = min_value(bl) + 10
        /\ obs.ret.max_rhs = bl.max_value - 10
        /\ ("min_above_hardware" \in obs.ret.written)
              => cfg.real_min_brightness > min_value(bl) + 10
        /\ ("max_below_hardware" \in obs.ret.written)
              => cfg.real_max_brightness < bl.max_value - 10

=============================================================================
